---- MODULE Spec2Model ----
(***************************************************************************)
(* A model of the MonStim EMG analysis core (src/monstim_analysis):        *)
(* the amplitude transforms and the M-max plateau detector of              *)
(* Transform_EMG.py, and the EMGSession / EMGDataset entities of           *)
(* Analyze_EMG.py with their exclusion state, pristine backup, lazily      *)
(* computed caches and version migration.                                  *)
(*                                                                         *)
(* Numbers.  Amplitudes are exact rationals [k, n, d]; k = "nan" is        *)
(* numpy's nan and k = "none" is Python's None.  The sample values used    *)
(* are small integers, for which the floating point results of the code    *)
(* agree with the exact ones in every comparison the code makes.           *)
(***************************************************************************)
EXTENDS Integers, Sequences, FiniteSets, TLC

(***************************************************************************)
(* Bounds of the model.                                                    *)
(***************************************************************************)
NumRecordings == 5      \* recordings supplied to a session at construction
NumSessions == 5        \* session sources available to a dataset
MaxSessions == 3        \* cap on len(emg_sessions)
NumChannels == 2        \* channels of a regular session source
NumSamples == 4         \* samples per channel of a recording
MaxCurveLen == 6        \* points of a curve handed to detect_plateau by itself

(***************************************************************************)
(* Program constants.                                                      *)
(***************************************************************************)
DefaultMaxWindowSize == 20    \* get_avg_mmax(max_window_size=20)
DefaultMinWindowSize == 3     \* get_avg_mmax(min_window_size=3)
SavgolPercent == 25           \* savgol_filter_y: window = len(y)/100*25
ThresholdNum == 3             \* get_avg_mmax(threshold=0.3)
ThresholdDen == 10
UpgradeThreshold == 160       \* parse_version('1.6.0')
OldVersion == 150             \* a stored version below the threshold (1.5.0)
DefaultStoredVersion == 100   \* parse_version('1.0.0'), given to a state without version

(***************************************************************************)
(* Exact arithmetic                                                        *)
(***************************************************************************)
Abs(x) == IF x < 0 THEN -x ELSE x

RECURSIVE Gcd(_, _)
Gcd(a, b) == IF b = 0 THEN a ELSE Gcd(b, a % b)

None == [k |-> "none", n |-> 0, d |-> 1]
NaN == [k |-> "nan", n |-> 0, d |-> 1]

Rat(n, d) ==
    LET reduced(g, s) == [k |-> "num", n |-> (s * n) \div g, d |-> (s * d) \div g]
    IN reduced(Gcd(Abs(n), Abs(d)), IF d < 0 THEN -1 ELSE 1)

RInt(i) == [k |-> "num", n |-> i, d |-> 1]

IsNum(a) == a.k = "num"

RAdd(a, b) == IF IsNum(a) /\ IsNum(b) THEN Rat(a.n * b.d + b.n * a.d, a.d * b.d) ELSE NaN
RNeg(a) == IF IsNum(a) THEN [a EXCEPT !.n = -a.n] ELSE NaN
RSub(a, b) == RAdd(a, RNeg(b))
RMul(a, b) == IF IsNum(a) /\ IsNum(b) THEN Rat(a.n * b.n, a.d * b.d) ELSE NaN
RDivInt(a, i) == IF IsNum(a) /\ i > 0 THEN Rat(a.n, a.d * i) ELSE NaN
\* every comparison with nan is False, as in IEEE arithmetic
RLess(a, b) == IsNum(a) /\ IsNum(b) /\ a.n * b.d < b.n * a.d
RAbs(a) == IF IsNum(a) THEN [a EXCEPT !.n = Abs(a.n)] ELSE NaN

RECURSIVE RSum(_)
RSum(s) == IF Len(s) = 0 THEN RInt(0) ELSE RAdd(Head(s), RSum(Tail(s)))

\* np.mean: nan for an empty array
RMean(s) == IF Len(s) = 0 THEN NaN ELSE RDivInt(RSum(s), Len(s))

RECURSIVE RMax(_)
RMax(s) == IF Len(s) = 1 THEN s[1]
           ELSE LET m == RMax(Tail(s)) IN IF RLess(s[1], m) THEN m ELSE s[1]

RECURSIVE RMin(_)
RMin(s) == IF Len(s) = 1 THEN s[1]
           ELSE LET m == RMin(Tail(s)) IN IF RLess(m, s[1]) THEN m ELSE s[1]

\* Python's s[lo:hi] for 0 <= lo, with the end clamped to the length
Slice(s, lo, hi) ==
    LET h == IF hi > Len(s) THEN Len(s) ELSE hi
    IN IF lo >= h THEN << >> ELSE SubSeq(s, lo + 1, h)

\* a sequence built by a comprehension, as the list it is
ToSeq(f) == << >> \o f

Range(s) == {s[i] : i \in 1..Len(s)}

(***************************************************************************)
(* Transform_EMG.py                                                        *)
(***************************************************************************)

\* butter_bandpass_filter: the filter is a linear, zero-phase band-pass.  It
\* is modelled by a first difference, which keeps what the entities rely on:
\* the output has the length of the input, is linear in it (so that
\* filter(-x) = -filter(x)), is zero for a constant signal, and is neither
\* the identity nor commuting with rectification.
butter_bandpass_filter(data) ==
    ToSeq([i \in 1..Len(data) |-> IF i = 1 THEN 0 ELSE data[i] - data[i - 1]])

\* rectify_emg
rectify_emg(emg) == ToSeq([i \in 1..Len(emg) |-> Abs(emg[i])])

\* int(ms * scan_rate / 1000) for ms >= 0
SampleIndex(ms, scan_rate) == (ms * scan_rate) \div 1000

\* emg_data[start_index:end_index]
emg_window(emg, start_ms, end_ms, scan_rate) ==
    Slice(emg, SampleIndex(start_ms, scan_rate), SampleIndex(end_ms, scan_rate))

AsRat(seq) == ToSeq([i \in 1..Len(seq) |-> RInt(seq[i])])

calculate_average_amplitude_rectified(emg, start_ms, end_ms, scan_rate) ==
    RMean(AsRat(rectify_emg(emg_window(emg, start_ms, end_ms, scan_rate))))

calculate_peak_to_trough_amplitude(emg, start_ms, end_ms, scan_rate) ==
    LET w == AsRat(emg_window(emg, start_ms, end_ms, scan_rate))
    IN RSub(RMax(w), RMin(w))

calculate_average_amplitude_unrectified(emg, start_ms, end_ms, scan_rate) ==
    RMean(AsRat(emg_window(emg, start_ms, end_ms, scan_rate)))

\* The extraction methods of the model.  'rms' needs a square root and is not
\* among them.
Methods == {"average_rectified", "peak_to_trough", "average_unrectified"}

calculate_emg_amplitude(emg, start_ms, end_ms, scan_rate, method) ==
    CASE method = "average_rectified" ->
             calculate_average_amplitude_rectified(emg, start_ms, end_ms, scan_rate)
      [] method = "peak_to_trough" ->
             calculate_peak_to_trough_amplitude(emg, start_ms, end_ms, scan_rate)
      [] method = "average_unrectified" ->
             calculate_average_amplitude_unrectified(emg, start_ms, end_ms, scan_rate)

\* savgol_filter_y.  window_length = int(len(y)/100*25).  A window of 0
\* samples (len(y) < 4) makes scipy raise ValueError; a window of 1 sample
\* (4 <= len(y) <= 7) with polynomial order min(3, 0) = 0 fits every point by
\* itself and returns the curve.  Longer windows are outside the model: its
\* curves have at most 7 points.
savgol_filter_y(y) ==
    LET window_length == (Len(y) * SavgolPercent) \div 100
    IN IF window_length = 0
       THEN [raised |-> "ValueError", y |-> << >>]
       ELSE [raised |-> "none", y |-> y]

\* np.std(window) < threshold, for threshold > 0, compared as squares
Variance(w) ==
    LET squared(d) == RMul(d, d)
        spread(m) == RMean(ToSeq([i \in 1..Len(w) |-> squared(RSub(w[i], m))]))
    IN spread(RMean(w))

StdBelow(w, threshold) == RLess(Variance(w), RMul(threshold, threshold))

\* The for loop of detect_plateau from position i on, with the plateau
\* indices found so far (-1 is None).
RECURSIVE plateau_scan(_, _, _, _, _, _)
plateau_scan(yf, w, threshold, i, start_idx, end_idx) ==
    IF i >= Len(yf) - w
    THEN [start |-> start_idx, end |-> end_idx]
    ELSE IF StdBelow(Slice(yf, i, i + w), threshold)
         THEN plateau_scan(yf, w, threshold, i + 1,
                           IF start_idx = -1 THEN i ELSE start_idx, i + w)
         ELSE plateau_scan(yf, w, threshold, i + 1, -1, -1)

\* detect_plateau giving up after the first window size
detect_plateau_no_retry(y, max_window_size, min_window_size, threshold) ==
    LET result(f, found) ==
            [raised |-> f.raised,
             start |-> IF f.raised = "none" THEN found.start ELSE -1,
             end |-> IF f.raised = "none" THEN found.end ELSE -1,
             window |-> max_window_size]
        scanned(f) == result(f, plateau_scan(f.y, max_window_size, threshold, 0, -1, -1))
    IN scanned(savgol_filter_y(y))

\* detect_plateau (x is not used by the code)
RECURSIVE detect_plateau(_, _, _, _)
detect_plateau(y, max_window_size, min_window_size, threshold) ==
    LET result(f, found) ==
            IF f.raised # "none"
            THEN [raised |-> f.raised, start |-> -1, end |-> -1, window |-> max_window_size]
            ELSE IF found.start # -1 /\ found.end # -1
                 THEN [raised |-> "none", start |-> found.start, end |-> found.end,
                       window |-> max_window_size]
                 ELSE IF max_window_size > min_window_size
                      THEN detect_plateau(y, max_window_size - 1, min_window_size,
                                          threshold)
                      ELSE [raised |-> "none", start |-> -1, end |-> -1,
                            window |-> max_window_size]
        scanned(f) == result(f, plateau_scan(f.y, max_window_size, threshold, 0, -1, -1))
    IN scanned(savgol_filter_y(y))

\* get_avg_mmax.  args holds the keyword arguments given: max_window_size,
\* min_window_size, threshold and, when the stimulus range is asked for,
\* return_mmax_stim_range; stim_range is then the pair of voltages returned
\* after the M-max (Python indexes from 0, sequences from 1).
get_avg_mmax(stimulus_voltages, m_wave_amplitudes, args) ==
    LET ranged(p) ==
            IF "return_mmax_stim_range" \in DOMAIN args /\ args.return_mmax_stim_range
            THEN <<stimulus_voltages[p.start + 1], stimulus_voltages[p.end + 1]>>
            ELSE << >>
        corrected(p, plateau_data, m_max, pmax) ==
            IF RLess(m_max, RMax(m_wave_amplitudes))
            THEN [raised |-> "none",
                  value |-> RSub(RAdd(m_max,
                                      RMean(SelectSeq(m_wave_amplitudes,
                                                      LAMBDA a : RLess(m_max, a)))),
                                 RMean(SelectSeq(plateau_data, LAMBDA a : RLess(a, pmax)))),
                  stim_range |-> ranged(p)]
            ELSE [raised |-> "none", value |-> m_max, stim_range |-> ranged(p)]
        averaged(p, plateau_data) ==
            corrected(p, plateau_data, RMean(plateau_data), RMax(plateau_data))
        calculated(p) ==
            IF p.raised # "none"
            THEN [raised |-> p.raised, value |-> None, stim_range |-> << >>]
            ELSE IF p.start = -1 \/ p.end = -1
                 THEN [raised |-> "NoCalculableMmaxError", value |-> None,
                       stim_range |-> << >>]
                 ELSE averaged(p, Slice(m_wave_amplitudes, p.start, p.end))
    IN calculated(detect_plateau(m_wave_amplitudes, args.max_window_size,
                                 args.min_window_size, args.threshold))

DefaultMmaxArgs ==
    [max_window_size |-> DefaultMaxWindowSize,
     min_window_size |-> DefaultMinWindowSize,
     threshold |-> Rat(ThresholdNum, ThresholdDen)]

(***************************************************************************)
(* Sorting: Python's sorted() is stable.                                   *)
(***************************************************************************)
\* insert the pair p = <<key, item>> after every pair whose key is <= its key
RECURSIVE InsertPair(_, _)
InsertPair(sorted, p) ==
    IF Len(sorted) = 0 THEN <<p>>
    ELSE IF sorted[Len(sorted)][1] <= p[1] THEN Append(sorted, p)
         ELSE Append(InsertPair(SubSeq(sorted, 1, Len(sorted) - 1), p),
                     sorted[Len(sorted)])

RECURSIVE SortPairs(_)
SortPairs(pairs) ==
    IF Len(pairs) = 0 THEN << >>
    ELSE InsertPair(SortPairs(SubSeq(pairs, 1, Len(pairs) - 1)), pairs[Len(pairs)])

\* sorted(seq, key=Key)
Sorted(seq, Key(_)) ==
    LET sp == SortPairs(ToSeq([i \in 1..Len(seq) |-> <<Key(seq[i]), seq[i]>>]))
    IN ToSeq([i \in 1..Len(seq) |-> sp[i][2]])

(***************************************************************************)
(* Configuration and session source data (external collaborators).  The    *)
(* configuration file and the importer are not part of the core; the model *)
(* fixes one configuration and a family of session descriptors.            *)
(***************************************************************************)
DefaultChannelNames == <<"LG", "TA">>
FallbackChannelNames == <<"Channel 0", "Channel 1", "Channel 2", "Channel 3">>

\* _config['m_start'], ['m_duration'], ['h_start'], ['h_duration'] in ms
Config ==
    [m_start |-> ToSeq([c \in 1..NumChannels |-> 1]),
     m_duration |-> 2,
     h_start |-> ToSeq([c \in 1..NumChannels |-> 2]),
     h_duration |-> 1,
     m_max_args |-> DefaultMmaxArgs,
     default_channel_names |-> DefaultChannelNames]

\* Samples of channel c (0-based) of the recording of rank i (0-based, by
\* stimulus voltage) of source sid, out of n recordings: 0, h, h - g and
\* zeros up to NumSamples samples.
\* Under the default M-wave window the filtered signal is (h, -g).  Channel 0
\* rises, stays near a plateau and ends on a supra-maximal point; the other
\* channels are steep (no plateau) for odd sid and flat for even sid.
SrcG(i) == IF i % 2 = 0 THEN 2 ELSE 1

SrcH(sid, i, c, n) ==
    IF c = 0
    THEN (IF i = 0 THEN 0 ELSE IF i = n - 1 THEN 16 ELSE 9) + (IF i = 0 THEN 0 ELSE 2 * (sid - 1))
    ELSE IF sid % 2 = 1 THEN 4 * i ELSE 6 - SrcG(i)

SrcSamples(sid, i, c, n) ==
    <<0, SrcH(sid, i, c, n), SrcH(sid, i, c, n) - SrcG(i)>>
        \o ToSeq([k \in 1..(NumSamples - 3) |-> 0])

\* Session parameters of source sid.  Sources 1 and 2 agree; source 3 has
\* another scan rate, source 4 one channel less, source 5 another stim_start.
SrcScanRate(sid) == IF sid % 6 = 3 THEN 2000 ELSE 1000
SrcNumChannels(sid) == IF sid % 6 = 4 THEN NumChannels - 1 ELSE NumChannels
SrcStimDelay(sid) == IF sid % 6 = 5 THEN 1 ELSE 0

\* The recordings of a source arrive in an order that is not the order of the
\* stimulus voltages: position j holds the recording of rank (j + sid) % n.
SrcRank(sid, j, n) == (j + sid) % n

SessionData(sid) ==
    [session_info |->
        [session_id |-> sid,
         num_channels |-> SrcNumChannels(sid),
         scan_rate |-> SrcScanRate(sid),
         num_samples |-> NumSamples,
         pre_stim_acquired |-> 0,
         stim_delay |-> SrcStimDelay(sid)],
     recordings |->
        ToSeq([j \in 1..NumRecordings |->
            [recording_id |-> -1,
             stimulus_v |-> SrcRank(sid, j, NumRecordings),
             channel_data |->
                ToSeq([c \in 1..SrcNumChannels(sid) |->
                    SrcSamples(sid, SrcRank(sid, j, NumRecordings), c - 1, NumRecordings)])]])]

(***************************************************************************)
(* EMGSession                                                              *)
(*                                                                         *)
(* Recordings are Python dicts, so a list holds references.  An element of *)
(* recordings_raw is either an object of its own (orig = 0, with its       *)
(* content in rec) or the very object held at position orig of             *)
(* _original_recordings (what restore_recording appends).                  *)
(***************************************************************************)
DataVersion == UpgradeThreshold    \* the running schema version (not below the threshold)

NoRec == [recording_id |-> -1, stimulus_v |-> -1, channel_data |-> << >>]
Own(r) == [orig |-> 0, rec |-> r]
Alias(k) == [orig |-> k, rec |-> NoRec]
Deref(backup, e) == IF e.orig = 0 THEN e.rec ELSE backup[e.orig]

\* recordings_raw as the program reads it
RawView(s) ==
    ToSeq([i \in 1..Len(s.recordings_raw) |-> Deref(s._original_recordings, s.recordings_raw[i])])

NoCache == [set |-> FALSE, v |-> << >>]
Cached(v) == [set |-> TRUE, v |-> v]

\* EMGData.add_latency_window. start_times and durations are Python lists:
\* lists names the list objects the window refers to, "own" for objects no
\* other entity refers to (made from the entity's own configuration or by a
\* deep copy), "argument" for the objects handed to the latest
\* update_reflex_latency_windows call that reached the window.
LatencyWindow(name, start_times, durations) ==
    [name |-> name, start_times |-> start_times, durations |-> durations,
     lists |-> "own"]

\* copy.deepcopy of a list of latency windows: equal values in new objects
deepcopy_windows(w) == ToSeq([i \in 1..Len(w) |-> [w[i] EXCEPT !.lists = "own"]])

\* EMGSession.update_reflex_parameters
session_update_reflex_parameters(s) ==
    LET w == s.latency_windows
        M == {i \in 1..Len(w) : w[i].name = "M-wave"}
        H == {i \in 1..Len(w) : w[i].name = "H-reflex"}
        lastOf(S) == CHOOSE i \in S : \A j \in S : j <= i
    IN [s EXCEPT
          !.m_start = IF M = {} THEN @ ELSE w[lastOf(M)].start_times,
          !.m_duration = IF M = {} THEN @ ELSE w[lastOf(M)].durations,
          !.h_start = IF H = {} THEN @ ELSE w[lastOf(H)].start_times,
          !.h_duration = IF H = {} THEN @ ELSE w[lastOf(H)].durations]

\* EMGSession.update_reflex_latency_windows
session_update_reflex_latency_windows(s, m_start, m_duration, h_start, h_duration) ==
    [s EXCEPT !.latency_windows =
        ToSeq([i \in 1..Len(@) |->
            IF @[i].name = "M-wave"
            THEN [@[i] EXCEPT !.start_times = m_start, !.durations = m_duration,
                              !.lists = "argument"]
            ELSE IF @[i].name = "H-reflex"
                 THEN [@[i] EXCEPT !.start_times = h_start, !.durations = h_duration,
                                   !.lists = "argument"]
                 ELSE @[i]])]

\* EMGSession.__init__(session_data=...) / _initialize_from_data, under the
\* configured default extraction method
initialize_from_data(session_data, method) ==
    LET info == session_data.session_info
        raw == Sorted(session_data.recordings, LAMBDA r : r.stimulus_v)
        withIds == ToSeq([i \in 1..Len(raw) |-> [raw[i] EXCEPT !.recording_id = i - 1]])
        nch == info.num_channels
        durs(d) == ToSeq([c \in 1..Len(Config.m_start) |-> d])
        s0 == [version |-> DataVersion,
               session_id |-> info.session_id,
               num_channels |-> nch,
               channel_names |->
                   ToSeq([i \in 1..nch |-> IF i <= Len(Config.default_channel_names)
                                     THEN Config.default_channel_names[i]
                                     ELSE FallbackChannelNames[i]]),
               scan_rate |-> info.scan_rate,
               pre_stim_acquired |-> info.pre_stim_acquired,
               stim_delay |-> info.stim_delay,
               stim_start |-> info.stim_delay + info.pre_stim_acquired,
               recordings_raw |-> ToSeq([i \in 1..Len(withIds) |-> Own(withIds[i])]),
               _original_recordings |-> withIds,
               num_recordings |-> Len(withIds),
               excluded_recordings |-> {},
               _recordings_processed |-> NoCache,
               _m_max |-> NoCache,
               latency_windows |->
                   <<LatencyWindow("M-wave", Config.m_start, durs(Config.m_duration)),
                     LatencyWindow("H-reflex", Config.h_start, durs(Config.h_duration))>>,
               m_start |-> << >>, m_duration |-> << >>,
               h_start |-> << >>, h_duration |-> << >>,
               default_method |-> method,
               m_max_args |-> Config.m_max_args]
    IN session_update_reflex_parameters(s0)

\* __process_single_recording
process_single_recording(recording, apply_filter, rectify) ==
    LET filtered ==
            IF apply_filter
            THEN [recording EXCEPT !.channel_data =
                     ToSeq([c \in 1..Len(@) |-> butter_bandpass_filter(@[c])])]
            ELSE recording
    IN IF rectify
       THEN [filtered EXCEPT !.channel_data = ToSeq([c \in 1..Len(@) |-> rectify_emg(@[c])])]
       ELSE filtered

\* EMGSession._process_emg_data: executor.map keeps the input order
process_emg_data(recordings, apply_filter, rectify) ==
    ToSeq([i \in 1..Len(recordings) |->
        process_single_recording(recordings[i], apply_filter, rectify)])

\* the property recordings_processed: returns the session with the cache filled
recordings_processed(s) ==
    IF s._recordings_processed.set THEN s
    ELSE [s EXCEPT !._recordings_processed =
             Cached(process_emg_data(RawView(s), TRUE, FALSE))]

\* the M-wave amplitudes of channel channel_idx (0-based) over the processed
\* recordings proc
m_wave_amplitudes(s, proc, channel_idx) ==
    ToSeq([i \in 1..Len(proc) |->
        calculate_emg_amplitude(
            proc[i].channel_data[channel_idx + 1],
            s.m_start[channel_idx + 1] + s.stim_start,
            s.m_start[channel_idx + 1] + s.stim_start + s.m_duration[channel_idx + 1],
            s.scan_rate, s.default_method)])

\* a channel loop that stops at the first channel whose M-max cannot be
\* calculated
RECURSIVE m_max_loop_abort(_, _, _, _)
m_max_loop_abort(s, proc, channel_idx, m_max) ==
    LET appended(r) ==
            IF r.raised = "none"
            THEN m_max_loop_abort(s, proc, channel_idx + 1, Append(m_max, r.value))
            ELSE m_max
    IN IF channel_idx >= s.num_channels THEN m_max
       ELSE appended(get_avg_mmax(ToSeq([i \in 1..Len(proc) |-> proc[i].stimulus_v]),
                                  m_wave_amplitudes(s, proc, channel_idx), s.m_max_args))

\* the channel loop of the property m_max, from channel_idx on
RECURSIVE m_max_loop(_, _, _, _)
m_max_loop(s, proc, channel_idx, m_max) ==
    LET channel_m_max(r) ==
            CASE r.raised = "none" -> r.value
              [] r.raised = "NoCalculableMmaxError" -> None
              [] r.raised = "ValueError" -> None
    IN IF channel_idx >= s.num_channels THEN m_max
       ELSE m_max_loop(s, proc, channel_idx + 1,
                Append(m_max,
                    channel_m_max(
                        get_avg_mmax(ToSeq([i \in 1..Len(proc) |-> proc[i].stimulus_v]),
                                     m_wave_amplitudes(s, proc, channel_idx),
                                     s.m_max_args))))

\* the property m_max: returns the session with both caches filled
session_m_max(s) ==
    LET calculated(s1) ==
            [s1 EXCEPT !._m_max = Cached(m_max_loop(s1, s1._recordings_processed.v, 0, << >>))]
    IN IF s._m_max.set THEN s ELSE calculated(recordings_processed(s))

\* EMGSession.reset_properties
session_reset_properties(s, recalculate) ==
    LET cleared == [s EXCEPT !._recordings_processed = NoCache, !._m_max = NoCache]
    IN IF recalculate THEN session_m_max(recordings_processed(cleared)) ELSE cleared

\* an exclude_recording that resets the caches before it looks at the
\* exclusion set
exclude_recording_reset_first(s, original_recording_index) ==
    LET excluded(s1) ==
            IF original_recording_index \in s.excluded_recordings
            THEN [s |-> s1, raised |-> "ValueError"]
            ELSE [s |-> [s1 EXCEPT
                           !.excluded_recordings = @ \cup {original_recording_index},
                           !.recordings_raw =
                               SelectSeq(@, LAMBDA e :
                                   Deref(s1._original_recordings, e).recording_id
                                       # original_recording_index)],
                  raised |-> "none"]
    IN excluded(session_reset_properties(s, FALSE))

\* EMGSession.exclude_recording
exclude_recording(s, original_recording_index) ==
    LET excluded(s1) ==
            [s |-> [s1 EXCEPT
                      !.excluded_recordings = @ \cup {original_recording_index},
                      !.recordings_raw =
                          SelectSeq(@, LAMBDA e :
                              Deref(s1._original_recordings, e).recording_id
                                  # original_recording_index)],
             raised |-> "none"]
    IN IF original_recording_index \in s.excluded_recordings
       THEN [s |-> s, raised |-> "ValueError"]
       ELSE excluded(session_reset_properties(s, FALSE))

\* EMGSession.restore_recording.  list.copy().pop(i) accepts -len <= i < len
\* and returns the object held by the backup, not a copy of it.
restore_recording(s, original_recording_index) ==
    LET i == original_recording_index
        sorted(s2) ==
            [s2 EXCEPT !.recordings_raw =
                Sorted(@, LAMBDA e : Deref(s2._original_recordings, e).recording_id)]
        restored(s1) ==
            LET n == Len(s1._original_recordings)
                pos == IF i >= 0 THEN i + 1 ELSE n + i + 1
            IN IF i >= n \/ i < -n
               THEN [s |-> s1, raised |-> "IndexError"]
               ELSE [s |-> session_reset_properties(
                              sorted([s1 EXCEPT
                                        !.recordings_raw = Append(@, Alias(pos)),
                                        !.excluded_recordings = @ \ {i}]),
                              FALSE),
                     raised |-> "none"]
    IN IF i \notin s.excluded_recordings
       THEN [s |-> s, raised |-> "ValueError"]
       ELSE restored(session_reset_properties(s, FALSE))

\* a reload_recordings that takes the recordings back and keeps the
\* exclusion set
reload_recordings_keep_excluded(s) ==
    LET s1 == [s EXCEPT
                 !.recordings_raw =
                     ToSeq([i \in 1..Len(s._original_recordings) |->
                               Own(s._original_recordings[i])])]
    IN [s |-> session_reset_properties(s1, TRUE), raised |-> "none"]

\* EMGSession.reload_recordings: a deep copy of the backup
reload_recordings(s) ==
    LET s1 == [s EXCEPT
                 !.recordings_raw =
                     ToSeq([i \in 1..Len(s._original_recordings) |-> Own(s._original_recordings[i])]),
                 !.excluded_recordings = {}]
    IN [s |-> session_reset_properties(s1, TRUE), raised |-> "none"]

\* recording['channel_data'][channel_index] *= -1 on one recording object
\* (a negative index counts from the end)
Inverted(rec, channel_index) ==
    LET c == IF channel_index >= 0 THEN channel_index + 1
             ELSE Len(rec.channel_data) + channel_index + 1
    IN [rec EXCEPT !.channel_data[c] = ToSeq([k \in 1..Len(@) |-> -@[k]])]

\* EMGSession.invert_channel_polarity.  The loop visits the objects of
\* recordings_raw; an object of the backup that is in the list is inverted
\* once for each time it occurs.  An index out of range raises at the first
\* recording, before anything is changed.
invert_channel_polarity(s, channel_index) ==
    LET raw == s.recordings_raw
        occurs(k) == Cardinality({i \in 1..Len(raw) : raw[i].orig = k})
        s1 == [s EXCEPT
                 !.recordings_raw =
                     ToSeq([i \in 1..Len(raw) |->
                         IF raw[i].orig = 0
                         THEN Own(Inverted(raw[i].rec, channel_index))
                         ELSE raw[i]]),
                 !._original_recordings =
                     ToSeq([k \in 1..Len(@) |->
                         IF occurs(k) % 2 = 1 THEN Inverted(@[k], channel_index) ELSE @[k]])]
    IN IF Len(raw) > 0 /\ (channel_index < -s.num_channels \/ channel_index >= s.num_channels)
       THEN [s |-> s, raised |-> "IndexError"]
       ELSE [s |-> session_reset_properties(s1, TRUE), raised |-> "none"]

\* EMGSession.rename_channels.  new_names is a dict, given as the sequence of
\* its <<old name, new name>> items in insertion order.  The loop writes the
\* i-th value to position i and stops at the first position out of range.
session_rename_channels(s, new_names) ==
    [s EXCEPT !.channel_names =
        ToSeq([i \in 1..Len(@) |-> IF i <= Len(new_names) THEN new_names[i][2] ELSE @[i]])]

\* EMGSession.apply_preferences (the configuration is fixed in the model, so
\* reloading it changes nothing; the plotter and the line style are not
\* modelled)
session_apply_preferences(s, reset_properties) ==
    IF reset_properties THEN session_reset_properties(s, TRUE) ELSE s

\* monstim_utils.deep_equal on the values of the model
deep_equal(val1, val2) == val1 = val2

IgnoreKeysSession ==
    {"plotter", "version", "m_end", "h_end", "_original_recordings",
     "_recordings_processed", "_m_max"}

\* EMGSession._upgrade_from_version on a state that has latency_windows.
\* The constructor is run on the active recordings only; it sorts them by
\* stimulus voltage and numbers the objects anew, in place, so the old list
\* current_state['recordings_raw'] holds renumbered objects too.  Then every
\* old value that is not ignored and differs from the fresh one is put back.
session_upgrade_from_version(s, old_version) ==
    LET view == RawView(s)
        tagged == Sorted(ToSeq([i \in 1..Len(view) |-> [pos |-> i, rec |-> view[i]]]),
                         LAMBDA t : t.rec.stimulus_v)
        new_id(i) == (CHOOSE j \in 1..Len(tagged) : tagged[j].pos = i) - 1
        session_data ==
            [session_info |->
                [session_id |-> s.session_id,
                 num_channels |-> s.num_channels,
                 scan_rate |-> s.scan_rate,
                 num_samples |-> NumSamples,
                 pre_stim_acquired |-> s.pre_stim_acquired,
                 stim_delay |-> s.stim_delay],
             recordings |-> view]
        default_state == initialize_from_data(session_data, s.default_method)
        current_state ==
            [s EXCEPT !.recordings_raw =
                ToSeq([i \in 1..Len(view) |-> Own([view[i] EXCEPT !.recording_id = new_id(i)])])]
        merged ==
            [key \in DOMAIN default_state |->
                IF key \notin IgnoreKeysSession
                   /\ ~deep_equal(default_state[key], current_state[key])
                THEN current_state[key]
                ELSE default_state[key]]
    IN IF old_version < UpgradeThreshold
       THEN [s |-> session_reset_properties(merged, FALSE), raised |-> "none"]
       ELSE [s |-> s, raised |-> "none"]

\* EMGData.__getstate__ / __setstate__: pickling keeps the whole __dict__
\* (caches included) and the sharing of objects; loading a state stored with
\* version stored_version runs the upgrade
load_persisted_session(s, stored_version) ==
    session_upgrade_from_version([s EXCEPT !.version = stored_version], stored_version)

\* the text of the ValueError raised for a state that is too old, as the
\* sequence of its parts
TooOldMessage(named, formatted_name) ==
    IF named
    THEN <<"Dataset '", formatted_name,
           "' is too old to upgrade. Delete the bin file and re-import the data.">>
    ELSE <<"Dataset version is too old to upgrade. Delete the bin file and re-import the data.">>

\* the head of _upgrade_from_version, the same lines in EMGSession,
\* EMGDataset and EMGExperiment: keys are the attribute names of the state
\* the same head raising the generic message whether or not the state is
\* named
too_old_generic(keys, formatted_name, old_version) ==
    IF old_version < UpgradeThreshold /\ "latency_windows" \notin keys
    THEN [raised |-> "ValueError", message |-> TooOldMessage(FALSE, formatted_name)]
    ELSE [raised |-> "none", message |-> << >>]

too_old_check(keys, formatted_name, old_version) ==
    IF old_version < UpgradeThreshold /\ "latency_windows" \notin keys
    THEN [raised |-> "ValueError",
          message |-> TooOldMessage("formatted_name" \in keys, formatted_name)]
    ELSE [raised |-> "none", message |-> << >>]

\* EMGData.__setstate__ on a stored state without latency_windows: a state
\* without version gets '1.0.0', then the upgrade runs and what it raises is
\* logged and raised again.  Without an error the state is taken as it is.
setstate(file) ==
    too_old_check(file.keys, file.formatted_name,
                  IF "version" \in file.keys THEN file.version ELSE DefaultStoredVersion)


(***************************************************************************)
(* EMGData.parse_date.  A date string is the sequence of its digits, a     *)
(* strptime format the sequence of its directives.                         *)
(***************************************************************************)
\* is_valid_date: datetime(year, month, day) does not raise
is_valid_date(year, month, day) ==
    LET IsLeap == (year % 4 = 0 /\ year % 100 # 0) \/ year % 400 = 0
        DaysInMonth ==
            IF month = 2 THEN (IF IsLeap THEN 29 ELSE 28)
            ELSE IF month \in {4, 6, 9, 11} THEN 30 ELSE 31
    IN /\ year \in 1..9999
       /\ month \in 1..12
       /\ day \in 1..DaysInMonth

NoDate == [year |-> 0, month |-> 0, day |-> 0]

\* datetime.strptime(date_string, date_format) for a format of three
\* directives among %y, %Y, %m, %d: %Y takes four digits, the others two; a
\* two-digit year below 69 is of this century, one from 69 on of the last;
\* a string of another length, a field out of range or a day the month does
\* not have raises ValueError (ok = FALSE).
strptime(date_string, date_format) ==
    LET width(j) == IF date_format[j] = "Y" THEN 4 ELSE 2
        start(j) == IF j = 1 THEN 1
                    ELSE IF j = 2 THEN 1 + width(1)
                    ELSE 1 + width(1) + width(2)
        two(i) == 10 * date_string[i] + date_string[i + 1]
        number(j) == IF width(j) = 4
                     THEN 100 * two(start(j)) + two(start(j) + 2)
                     ELSE two(start(j))
        field(kinds) == number(CHOOSE j \in 1..3 : date_format[j] \in kinds)
        year(yy) == IF "Y" \in Range(date_format) THEN yy
                    ELSE IF yy < 69 THEN 2000 + yy ELSE 1900 + yy
        parsed(y, m, d) ==
            IF is_valid_date(y, m, d)
            THEN [ok |-> TRUE, date |-> [year |-> y, month |-> m, day |-> d]]
            ELSE [ok |-> FALSE, date |-> NoDate]
    IN IF Len(date_string) # width(1) + width(2) + width(3)
       THEN [ok |-> FALSE, date |-> NoDate]
       ELSE parsed(year(field({"y", "Y"})), field({"m"}), field({"d"}))

\* the formats tried for a string of n digits, in order
DateFormats(n) ==
    IF n = 6
    THEN << <<(<<"y", "m", "d">>), "YYMMDD">>,
            <<(<<"d", "m", "y">>), "DDMMYY">>,
            <<(<<"m", "d", "y">>), "MMDDYY">> >>
    ELSE IF n = 8
    THEN << <<(<<"Y", "m", "d">>), "YYYYMMDD">>,
            <<(<<"d", "m", "Y">>), "DDMMYYYY">>,
            <<(<<"m", "d", "Y">>), "MMDDYYYY">> >>
    ELSE << >>

\* the loop of parse_date that collects (parsed_date, format_name) of every
\* format the string parses under, from format i on
RECURSIVE valid_formats_loop(_, _, _, _)
valid_formats_loop(date_string, formats, i, valid_formats) ==
    LET tried(p) ==
            IF p.ok /\ is_valid_date(p.date.year, p.date.month, p.date.day)
            THEN Append(valid_formats, <<p.date, formats[i][2]>>)
            ELSE valid_formats
    IN IF i > Len(formats) THEN valid_formats
       ELSE valid_formats_loop(date_string, formats, i + 1,
                               tried(strptime(date_string, formats[i][1])))

DateResult(date, info, warned) ==
    [parsed |-> date # NoDate, date |-> date, info |-> info, warned |-> warned]

\* the end of parse_date with the preference test left out
choose_format_first(valid_formats, preferred_format) ==
    IF Len(valid_formats) = 0 THEN DateResult(NoDate, "No valid date format found", FALSE)
    ELSE IF Len(valid_formats) = 1
         THEN DateResult(valid_formats[1][1], valid_formats[1][2], FALSE)
         ELSE DateResult(valid_formats[1][1], valid_formats[1][2], TRUE)

\* the end of parse_date: what is returned for the valid formats found, and
\* whether the ambiguity warning is logged.  preferred_format "" stands for
\* None (both are false in `if preferred_format`).
choose_format(valid_formats, preferred_format) ==
    LET preferred == {i \in 1..Len(valid_formats) : valid_formats[i][2] = preferred_format}
        first(S) == CHOOSE i \in S : \A j \in S : i <= j
    IN IF Len(valid_formats) = 0
       THEN DateResult(NoDate, "No valid date format found", FALSE)
       ELSE IF Len(valid_formats) = 1
            THEN DateResult(valid_formats[1][1], valid_formats[1][2], FALSE)
            ELSE IF preferred_format # "" /\ preferred # {}
                 THEN DateResult(valid_formats[first(preferred)][1],
                                 valid_formats[first(preferred)][2], FALSE)
                 ELSE DateResult(valid_formats[1][1], valid_formats[1][2], TRUE)

\* EMGData.parse_date
parse_date(date_string, preferred_format) ==
    IF Len(date_string) \notin {6, 8}
    THEN DateResult(NoDate, "Invalid date string length", FALSE)
    ELSE choose_format(
             valid_formats_loop(date_string, DateFormats(Len(date_string)), 1, << >>),
             preferred_format)


(***************************************************************************)
(* EMGDataset.  A dataset holds its sessions; the model keeps them by      *)
(* value in emg_sessions.                                                  *)
(***************************************************************************)
ConsistentReport ==
    [consistent |-> TRUE, session_id |-> 0, field |-> "none", value |-> 0, reference |-> 0]

Inconsistent(session, field, value, reference) ==
    [consistent |-> FALSE, session_id |-> session.session_id, field |-> field,
     value |-> value, reference |-> reference]

\* a consistency loop that does not compare stim_start
RECURSIVE consistency_loop_no_stim_start(_, _, _)
consistency_loop_no_stim_start(emg_sessions, i, ref) ==
    IF i > Len(emg_sessions) THEN ConsistentReport
    ELSE LET session == emg_sessions[i]
         IN IF session.scan_rate # ref.scan_rate
            THEN Inconsistent(session, "scan_rate", session.scan_rate, ref.scan_rate)
            ELSE IF session.num_channels # ref.num_channels
                 THEN Inconsistent(session, "num_channels", session.num_channels,
                                   ref.num_channels)
                 ELSE consistency_loop_no_stim_start(emg_sessions, i + 1, ref)

\* the loop of __check_session_consistency over emg_sessions[i..], against
\* the reference session ref
RECURSIVE consistency_loop(_, _, _)
consistency_loop(emg_sessions, i, ref) ==
    IF i > Len(emg_sessions) THEN ConsistentReport
    ELSE LET session == emg_sessions[i]
         IN IF session.scan_rate # ref.scan_rate
            THEN Inconsistent(session, "scan_rate", session.scan_rate, ref.scan_rate)
            ELSE IF session.num_channels # ref.num_channels
                 THEN Inconsistent(session, "num_channels", session.num_channels,
                                   ref.num_channels)
                 ELSE IF session.stim_start # ref.stim_start
                      THEN Inconsistent(session, "stim_start", session.stim_start,
                                        ref.stim_start)
                      ELSE consistency_loop(emg_sessions, i + 1, ref)

\* EMGDataset.__check_session_consistency (emg_sessions is not empty)
check_session_consistency(emg_sessions) ==
    consistency_loop(emg_sessions, 2, emg_sessions[1])

\* EMGDataset.update_reflex_parameters
dataset_update_reflex_parameters(ds) ==
    LET own == session_update_reflex_parameters(
                   [latency_windows |-> ds.latency_windows,
                    m_start |-> ds.m_start, m_duration |-> ds.m_duration,
                    h_start |-> ds.h_start, h_duration |-> ds.h_duration])
    IN [ds EXCEPT
          !.m_start = own.m_start, !.m_duration = own.m_duration,
          !.h_start = own.h_start, !.h_duration = own.h_duration,
          !.emg_sessions = ToSeq([i \in 1..Len(@) |-> session_update_reflex_parameters(@[i])])]

\* EMGDataset.update_reflex_latency_windows
dataset_update_reflex_latency_windows(ds, m_start, m_duration, h_start, h_duration) ==
    LET own == session_update_reflex_latency_windows(
                   [latency_windows |-> ds.latency_windows],
                   m_start, m_duration, h_start, h_duration)
    IN [ds EXCEPT
          !.latency_windows = own.latency_windows,
          !.emg_sessions =
              ToSeq([i \in 1..Len(@) |->
                  session_update_reflex_latency_windows(@[i], m_start, m_duration,
                                                        h_start, h_duration)])]

\* the latency windows of the dataset (e = 0) or of its e-th session
EntityWindows(ds, e) ==
    IF e = 0 THEN ds.latency_windows ELSE ds.emg_sessions[e].latency_windows

\* Python's item assignment `window.field[k] = v` on the w-th latency window
\* of entity who, field being "start_times" or "durations": the list object
\* is changed, so the new item shows through every window of the dataset
\* whose field refers to that same object. update_reflex_latency_windows
\* assigns one m_start, m_duration, h_start and h_duration object to the
\* window of that name of the dataset and of each of its sessions.
set_window_item(ds, who, w, field, k, v) ==
    LET target == EntityWindows(ds, who)[w]
        same(e, i, x) ==
            \/ e = who /\ i = w
            \/ x.name = target.name /\ x.lists = "argument" /\ target.lists = "argument"
        changed(e, windows) ==
            ToSeq([i \in 1..Len(windows) |->
                IF same(e, i, windows[i])
                THEN [windows[i] EXCEPT ![field][k] = v]
                ELSE windows[i]])
    IN [ds EXCEPT
          !.latency_windows = changed(0, ds.latency_windows),
          !.emg_sessions =
              ToSeq([i \in 1..Len(ds.emg_sessions) |->
                  [ds.emg_sessions[i] EXCEPT
                      !.latency_windows = changed(i, ds.emg_sessions[i].latency_windows)]])]

\* EMGDataset.__unpackEMGSessions: every item becomes a session and the list
\* is sorted by session_id
unpackEMGSessions(emg_sessions) == Sorted(emg_sessions, LAMBDA x : x.session_id)

\* EMGDataset.__init__ on a non-empty list of sessions (no session excluded).
\* EMGData.__init__ sets num_channels = 0 and empty lists; scan_rate and
\* stim_start do not exist (-1) until a consistent list sets them.
dataset_init(emg_sessions) ==
    LET sessions == unpackEMGSessions(emg_sessions)
        report == check_session_consistency(sessions)
        base == [version |-> DataVersion,
                 emg_sessions |-> sessions,
                 _m_max |-> NoCache,
                 num_channels |-> 0,
                 scan_rate |-> -1,
                 stim_start |-> -1,
                 channel_names |-> << >>,
                 latency_windows |-> << >>,
                 m_start |-> << >>, m_duration |-> << >>,
                 h_start |-> << >>, h_duration |-> << >>]
        set == [base EXCEPT
                  !.scan_rate = sessions[1].scan_rate,
                  !.num_channels = sessions[1].num_channels,
                  !.stim_start = sessions[1].stim_start,
                  !.channel_names = sessions[1].channel_names,
                  !.latency_windows = deepcopy_windows(sessions[1].latency_windows)]
    IN [ds |-> IF report.consistent THEN dataset_update_reflex_parameters(set) ELSE base,
        report |-> report, raised |-> "none"]

\* a dataset migration that reloads the recordings of every session it
\* upgrades
dataset_upgrade_reloading(ds, old_version) ==
    LET upgraded(s) ==
            reload_recordings(session_upgrade_from_version(s, old_version).s).s
    IN IF old_version < UpgradeThreshold
       THEN [ds |-> [ds EXCEPT !.emg_sessions =
                        ToSeq([i \in 1..Len(@) |-> upgraded(@[i])])],
             raised |-> "none"]
       ELSE [ds |-> ds, raised |-> "none"]

IgnoreKeysDataset == {"plotter", "version", "m_end", "h_end"}

\* EMGDataset._upgrade_from_version on a state that has latency_windows:
\* every session is upgraded and reset, the constructor is run on the old
\* list of sessions, and every old value that is not ignored and differs
\* from the fresh one is put back.  Nothing resets the dataset itself.
dataset_upgrade_from_version(ds, old_version) ==
    LET upgraded(s) ==
            session_reset_properties(session_upgrade_from_version(s, old_version).s, FALSE)
        merged(current_state, default_state) ==
            [key \in DOMAIN default_state |->
                IF key \notin IgnoreKeysDataset
                   /\ ~deep_equal(default_state[key], current_state[key])
                THEN current_state[key]
                ELSE default_state[key]]
        reinitialized(sessions) ==
            merged([ds EXCEPT !.emg_sessions = sessions], dataset_init(sessions).ds)
    IN IF old_version < UpgradeThreshold
       THEN [ds |-> reinitialized(ToSeq([i \in 1..Len(ds.emg_sessions) |->
                                            upgraded(ds.emg_sessions[i])])),
             raised |-> "none"]
       ELSE [ds |-> ds, raised |-> "none"]

\* loading a dataset stored with version stored_version: unpickling sets the
\* state of every session first, which runs the session's upgrade, and then
\* the state of the dataset, which runs the dataset's
load_persisted_dataset(ds, stored_version) ==
    dataset_upgrade_from_version(
        [ds EXCEPT !.version = stored_version,
                   !.emg_sessions =
                       ToSeq([i \in 1..Len(@) |->
                           load_persisted_session(@[i], stored_version).s])],
        stored_version)

\* EMGDataset.reset_properties
dataset_reset_properties(ds, recalculate) ==
    [ds EXCEPT
       !.emg_sessions = ToSeq([i \in 1..Len(@) |-> session_reset_properties(@[i], recalculate)]),
       !._m_max = NoCache]

\* a channel loop that averages over every session, a None counting as 0
RECURSIVE dataset_m_max_loop_none_as_zero(_, _, _, _)
dataset_m_max_loop_none_as_zero(session_m_maxes, num_channels, channel_index, m_max) ==
    IF channel_index >= num_channels
    THEN [raised |-> "none", channel |-> -1, m_max |-> m_max]
    ELSE IF \E i \in 1..Len(session_m_maxes) : Len(session_m_maxes[i]) <= channel_index
         THEN [raised |-> "IndexError", channel |-> channel_index, m_max |-> << >>]
         ELSE LET column == ToSeq([i \in 1..Len(session_m_maxes) |->
                                session_m_maxes[i][channel_index + 1]])
                  zeroed == ToSeq([i \in 1..Len(column) |->
                                IF column[i] = None THEN RInt(0) ELSE column[i]])
              IN IF \A i \in 1..Len(column) : column[i] = None
                 THEN [raised |-> "ValueError", channel |-> channel_index, m_max |-> << >>]
                 ELSE dataset_m_max_loop_none_as_zero(
                          session_m_maxes, num_channels, channel_index + 1,
                          Append(m_max, RMean(zeroed)))

\* the channel loop of EMGDataset.m_max over the sessions' m_max lists
RECURSIVE dataset_m_max_loop(_, _, _, _)
dataset_m_max_loop(session_m_maxes, num_channels, channel_index, m_max) ==
    IF channel_index >= num_channels
    THEN [raised |-> "none", channel |-> -1, m_max |-> m_max]
    ELSE IF \E i \in 1..Len(session_m_maxes) : Len(session_m_maxes[i]) <= channel_index
         THEN [raised |-> "IndexError", channel |-> channel_index, m_max |-> << >>]
         ELSE LET column == ToSeq([i \in 1..Len(session_m_maxes) |->
                                session_m_maxes[i][channel_index + 1]])
                  channel_m_maxes == SelectSeq(column, LAMBDA v : v # None)
              IN IF Len(channel_m_maxes) = 0
                 THEN [raised |-> "ValueError", channel |-> channel_index, m_max |-> << >>]
                 ELSE dataset_m_max_loop(session_m_maxes, num_channels, channel_index + 1,
                                         Append(m_max, RMean(channel_m_maxes)))

\* the property EMGDataset.m_max.  Reading it reads every session's m_max,
\* which fills the sessions' caches whether or not the aggregation succeeds.
dataset_m_max(ds) ==
    LET result(read, r) ==
            IF r.raised = "none"
            THEN [ds |-> [read EXCEPT !._m_max = Cached(r.m_max)],
                  raised |-> "none", channel |-> -1]
            ELSE [ds |-> read, raised |-> r.raised, channel |-> r.channel]
        aggregated(sessions) ==
            result([ds EXCEPT !.emg_sessions = sessions],
                   dataset_m_max_loop(
                       ToSeq([i \in 1..Len(sessions) |-> sessions[i]._m_max.v]),
                       ds.num_channels, 0, << >>))
    IN IF ds._m_max.set
       THEN [ds |-> ds, raised |-> "none", channel |-> -1]
       ELSE aggregated(ToSeq([i \in 1..Len(ds.emg_sessions) |->
                                 session_m_max(ds.emg_sessions[i])]))

\* EMGData._load_config_settings on a session: the preferences in force,
\* config, replace the ones the object was stored with
load_config_settings(s, config) ==
    [s EXCEPT !.default_method = config.default_method, !.m_max_args = config.m_max_args]

\* EMGDataset.apply_preferences under the preferences config (the plotter
\* and the line style are not modelled)
dataset_apply_preferences(ds, config, reset_properties) ==
    LET applied ==
            [ds EXCEPT !.emg_sessions =
                ToSeq([i \in 1..Len(@) |->
                    session_apply_preferences(load_config_settings(@[i], config), FALSE)])]
    IN IF reset_properties THEN dataset_reset_properties(applied, TRUE) ELSE applied

\* EMGDataset.load_dataset of the file save_dataset wrote of ds: the state
\* comes back as __getstate__ stored it, caches included, under the running
\* version, and the preferences in force are applied
load_dataset(ds, config) == dataset_apply_preferences(ds, config, FALSE)

\* session in [session.session_id for session in self.emg_sessions]: the
\* argument itself is compared with the session_id strings.  An EMGSession
\* (which defines no __eq__) is equal to none of them, and neither is the
\* path of the pickle file of a source.
in_session_ids(ds, session, is_path) ==
    \E i \in 1..Len(ds.emg_sessions) :
       /\ is_path
       /\ <<"path", session.session_id>> = <<"session_id", ds.emg_sessions[i].session_id>>

\* EMGDataset.add_session.  The argument is a session object or the path of
\* a pickled session.  Only a session object is followed by a sort.
add_session(ds, session, is_path) ==
    LET appended == Append(ds.emg_sessions, session)
        sessions == IF is_path THEN appended
                    ELSE Sorted(appended, LAMBDA x : x.session_id)
        report == check_session_consistency(sessions)
        ds1 == [ds EXCEPT !.emg_sessions = sessions]
        ds2 == IF report.consistent
               THEN [ds1 EXCEPT !.scan_rate = sessions[1].scan_rate,
                                !.num_channels = sessions[1].num_channels,
                                !.stim_start = sessions[1].stim_start]
               ELSE ds1
    IN IF in_session_ids(ds, session, is_path)
       THEN [ds |-> ds, report |-> ConsistentReport, raised |-> "none"]
       ELSE [ds |-> dataset_reset_properties(ds2, TRUE), report |-> report, raised |-> "none"]

\* EMGDataset.remove_session
remove_session(ds, session_id) ==
    IF \A i \in 1..Len(ds.emg_sessions) : ds.emg_sessions[i].session_id # session_id
    THEN [ds |-> ds, raised |-> "none"]
    ELSE [ds |-> dataset_reset_properties(
                    [ds EXCEPT !.emg_sessions =
                        SelectSeq(@, LAMBDA x : x.session_id # session_id)], TRUE),
          raised |-> "none"]

\* EMGDataset.reload_session
reload_session(ds, session_id) ==
    LET reloaded(x) ==
            session_apply_preferences(
                [reload_recordings(x).s EXCEPT !.channel_names = ds.channel_names], TRUE)
        ds1 == [ds EXCEPT !.emg_sessions =
                   ToSeq([i \in 1..Len(@) |->
                       IF @[i].session_id = session_id THEN reloaded(@[i]) ELSE @[i]])]
    IN IF \A i \in 1..Len(ds.emg_sessions) : ds.emg_sessions[i].session_id # session_id
       THEN [ds |-> ds, raised |-> "ValueError"]
       ELSE [ds |-> dataset_reset_properties(ds1, TRUE), raised |-> "none"]

\* the loop of EMGDataset.invert_channel_polarity from session i on: a
\* session that raises stops the loop and leaves the earlier ones inverted
RECURSIVE dataset_invert_loop(_, _, _)
dataset_invert_loop(ds, i, channel_index) ==
    LET inverted(r) ==
            IF r.raised # "none" THEN [ds |-> ds, raised |-> r.raised]
            ELSE dataset_invert_loop([ds EXCEPT !.emg_sessions[i] = r.s], i + 1,
                                     channel_index)
    IN IF i > Len(ds.emg_sessions) THEN [ds |-> ds, raised |-> "none"]
       ELSE inverted(invert_channel_polarity(ds.emg_sessions[i], channel_index))

\* EMGDataset.invert_channel_polarity
dataset_invert_channel_polarity(ds, channel_index) ==
    dataset_invert_loop(ds, 1, channel_index)

(***************************************************************************)
(* EMGExperiment                                                           *)
(*                                                                         *)
(* channel_names of a dataset found consistent at construction is the list *)
(* object of its first session, and channel_names of an experiment is the  *)
(* list object of its first dataset.  The lists are kept by value, and     *)
(* shared_channel_names gives a written list to every entity that holds    *)
(* the object.  The experiments of the model are built from consistent     *)
(* datasets, and no session enters or leaves them.                         *)
(***************************************************************************)
NoExperiment == [emg_datasets |-> << >>, channel_names |-> << >>]

\* a dataset whose channel_names is the list of its first session (the list
\* of its own that EMGData.__init__ makes is empty)
shares_channel_names(ds) == Len(ds.emg_sessions) > 0 /\ Len(ds.channel_names) > 0

shared_channel_names(e) ==
    LET datasets ==
            ToSeq([d \in 1..Len(e.emg_datasets) |->
                IF shares_channel_names(e.emg_datasets[d])
                THEN [e.emg_datasets[d] EXCEPT
                        !.channel_names = e.emg_datasets[d].emg_sessions[1].channel_names]
                ELSE e.emg_datasets[d]])
    IN [e EXCEPT !.emg_datasets = datasets, !.channel_names = datasets[1].channel_names]

\* EMGExperiment.__init__
experiment_init(emg_datasets) ==
    [emg_datasets |-> emg_datasets, channel_names |-> emg_datasets[1].channel_names]

\* EMGDataset.rename_channels: every session is renamed, then the list of
\* the dataset by position, a name beyond its end being skipped
dataset_rename_channels(ds, new_names) ==
    LET written(names) ==
            ToSeq([i \in 1..Len(names) |->
                IF i <= Len(new_names) THEN new_names[i][2] ELSE names[i]])
        sessions ==
            ToSeq([i \in 1..Len(ds.emg_sessions) |->
                session_rename_channels(ds.emg_sessions[i], new_names)])
    IN IF shares_channel_names(ds)
       THEN [ds EXCEPT !.emg_sessions =
                           [sessions EXCEPT ![1].channel_names = written(@)],
                       !.channel_names = written(sessions[1].channel_names)]
       ELSE [ds EXCEPT !.emg_sessions = sessions, !.channel_names = written(@)]

\* EMGExperiment.rename_channels: the list of the experiment is written by
\* position, a name beyond its end being appended, then every dataset is
\* renamed
experiment_rename_channels(e, new_names) ==
    LET names == e.channel_names
        n == IF Len(new_names) > Len(names) THEN Len(new_names) ELSE Len(names)
        written ==
            ToSeq([i \in 1..n |-> IF i <= Len(new_names) THEN new_names[i][2] ELSE names[i]])
        first == e.emg_datasets[1]
        held == IF shares_channel_names(first)
                THEN [first EXCEPT !.emg_sessions[1].channel_names = written,
                                   !.channel_names = written]
                ELSE [first EXCEPT !.channel_names = written]
        e1 == [e EXCEPT !.channel_names = written, !.emg_datasets[1] = held]
    IN shared_channel_names(
          [e1 EXCEPT !.emg_datasets =
              ToSeq([d \in 1..Len(@) |-> dataset_rename_channels(@[d], new_names)])])

(***************************************************************************)
(* State                                                                   *)
(***************************************************************************)
VARIABLES
    session,    \* the EMGSession under test
    dataset,    \* the EMGDataset under test
    experiment, \* the EMGExperiment under test
    last        \* the last call made

vars == <<session, dataset, experiment, last>>

\* arguments tried for exclude_recording / restore_recording: two recording
\* ids and an integer that is no recording id
RecordingArgs == {0, 1, NumRecordings}
\* arguments tried for invert_channel_polarity: a channel and no channel
ChannelArgs == {0, NumChannels}
\* arguments tried for update_reflex_latency_windows
WindowArgs ==
    {[m_start |-> ToSeq([c \in 1..NumChannels |-> 1]), m_duration |-> ToSeq([c \in 1..NumChannels |-> 2]),
      h_start |-> ToSeq([c \in 1..NumChannels |-> 2]), h_duration |-> ToSeq([c \in 1..NumChannels |-> 1])],
     [m_start |-> ToSeq([c \in 1..NumChannels |-> 2]), m_duration |-> ToSeq([c \in 1..NumChannels |-> 1]),
      h_start |-> ToSeq([c \in 1..NumChannels |-> 3]), h_duration |-> ToSeq([c \in 1..NumChannels |-> 1])]}
\* stored states without latency_windows: the class of the entity, the
\* attributes the state has among formatted_name and version, and their
\* values
StoredFiles ==
    [level : {"session", "dataset", "experiment"},
     keys : SUBSET {"formatted_name", "version"},
     formatted_name : {"240815 C328.1 Post-Dec Mcurve"},
     version : {OldVersion, DataVersion}]
\* the date strings of two, three and four two-digit groups
DateStrings ==
    LET DateGroups == {<<0, 0>>, <<0, 1>>, <<0, 2>>, <<1, 2>>, <<2, 9>>, <<3, 1>>}
    IN {a \o b : a, b \in DateGroups}
       \cup {a \o b \o c : a, b, c \in DateGroups}
       \cup {a \o b \o c \o d : a, b, c, d \in DateGroups}
\* the preferred formats tried, "" for none
PreferredFormats ==
    {"", "YYMMDD", "DDMMYY", "MMDDYY", "YYYYMMDD", "DDMMYYYY", "MMDDYYYY"}
\* the curves handed to detect_plateau by itself: 4 points (the shortest the
\* filter takes) to MaxCurveLen points, each 0 or 1; and the window sizes
Curves == UNION {[1..n -> {0, 1}] : n \in 4..MaxCurveLen}
StimulusVoltages(y) == ToSeq([i \in 1..Len(y) |-> 10 * i])
WindowSizes == {2, 3, 4}
\* arguments tried for rename_channels
RenameArgs == {<< <<"LG", "Sol">> >>, << <<"TA", "EDL">> >>}
\* the sessions a standalone session is built from: source and configured
\* default extraction method
SessionCases ==
    {<<1, "average_rectified">>, <<2, "peak_to_trough">>, <<1, "average_unrectified">>}
\* the extraction method configured for the sessions of a dataset
DatasetMethod == "average_rectified"
\* the session lists a dataset is built from
DatasetCases == {<<1>>, <<2, 1>>, <<1, 3>>}

NewSession(sid) == initialize_from_data(SessionData(sid), DatasetMethod)

\* what a call reports: op, argument, exception raised, the consistency
\* report logged and the channel named in an error; pre_excluded is
\* excluded_recordings as it was before a call on the session
Call(op, arg, raised, pre_excluded, report, channel) ==
    [op |-> op, arg |-> arg, raised |-> raised, pre_excluded |-> pre_excluded,
     report |-> report, channel |-> channel, message |-> << >>, result |-> << >>]

SessionCall(op, arg, raised) ==
    Call(op, arg, raised, session.excluded_recordings, ConsistentReport, -1)

DatasetCall(op, arg, raised, report, channel) == Call(op, arg, raised, {}, report, channel)

InitSession ==
    \E case \in SessionCases : session = initialize_from_data(SessionData(case[1]), case[2])

InitLast(op, arg, report) == last = Call(op, arg, "none", {}, report, -1)

\* a session is constructed
Init ==
    /\ experiment = NoExperiment
    /\ InitSession
    /\ dataset = dataset_init(<<NewSession(1)>>).ds
    /\ InitLast("init", 0, ConsistentReport)

ExcludeRecording(r) ==
    \E res \in {exclude_recording(session, r)} :
       /\ session' = res.s
       /\ last' = SessionCall("exclude_recording", r, res.raised)
       /\ UNCHANGED <<dataset, experiment>>

RestoreRecording(r) ==
    \E res \in {restore_recording(session, r)} :
       /\ session' = res.s
       /\ last' = SessionCall("restore_recording", r, res.raised)
       /\ UNCHANGED <<dataset, experiment>>

ReloadRecordings ==
    \E res \in {reload_recordings(session)} :
       /\ session' = res.s
       /\ last' = SessionCall("reload_recordings", 0, res.raised)
       /\ UNCHANGED <<dataset, experiment>>

InvertChannelPolarity(c) ==
    \E res \in {invert_channel_polarity(session, c)} :
       /\ session' = res.s
       /\ last' = SessionCall("invert_channel_polarity", c, res.raised)
       /\ UNCHANGED <<dataset, experiment>>

ReadMmax ==
    /\ session' = session_m_max(session)
    /\ last' = SessionCall("m_max", 0, "none")
    /\ UNCHANGED <<dataset, experiment>>

ReadRecordingsProcessed ==
    /\ session' = recordings_processed(session)
    /\ last' = SessionCall("recordings_processed", 0, "none")
    /\ UNCHANGED <<dataset, experiment>>

RenameChannels(new_names) ==
    /\ session' = session_rename_channels(session, new_names)
    /\ last' = SessionCall("rename_channels", new_names, "none")
    /\ UNCHANGED <<dataset, experiment>>

UpdateReflexLatencyWindows(w) ==
    /\ session' = session_update_reflex_latency_windows(
                      session, w.m_start, w.m_duration, w.h_start, w.h_duration)
    /\ last' = SessionCall("update_reflex_latency_windows", 0, "none")
    /\ UNCHANGED <<dataset, experiment>>

UpdateReflexParameters ==
    /\ session' = session_update_reflex_parameters(session)
    /\ last' = SessionCall("update_reflex_parameters", 0, "none")
    /\ UNCHANGED <<dataset, experiment>>

ApplyPreferences ==
    /\ session' = session_apply_preferences(session, TRUE)
    /\ last' = SessionCall("apply_preferences", 0, "none")
    /\ UNCHANGED <<dataset, experiment>>

\* the session is saved and a file holding its state under the version tag
\* stored_version is loaded
LoadPersisted(stored_version) ==
    \E res \in {load_persisted_session(session, stored_version)} :
       /\ session' = res.s
       /\ last' = SessionCall("load", stored_version, res.raised)
       /\ UNCHANGED <<dataset, experiment>>

\* a file holding the state of a session, a dataset or an experiment written
\* before latency windows existed is loaded: nothing is loaded when the
\* load raises, and the entities in memory stay as they are
SetState(file) ==
    \E res \in {setstate(file)} :
       /\ last' = [SessionCall("setstate", file, res.raised) EXCEPT !.message = res.message]
       /\ UNCHANGED <<session, dataset, experiment>>

\* exclusion, restoration, reload and polarity inversion of one session
Spec ==
    Init
    /\ [][\/ \E r \in RecordingArgs : ExcludeRecording(r)
          \/ \E r \in RecordingArgs : RestoreRecording(r)
          \/ ReloadRecordings
          \/ \E c \in ChannelArgs : InvertChannelPolarity(c)
          \/ ReadMmax
          \/ ReadRecordingsProcessed]_vars

\* exclusion, restoration and reload only
SpecExclusion ==
    Init
    /\ [][\/ \E r \in RecordingArgs : ExcludeRecording(r)
          \/ \E r \in RecordingArgs : RestoreRecording(r)
          \/ ReloadRecordings
          \/ ReadMmax]_vars

\* the operations that rearrange the recordings of a session, with saving
\* and loading under an old and under the running version tag
SpecLifecycle ==
    Init
    /\ [][\/ ExcludeRecording(0)
          \/ RestoreRecording(0)
          \/ ReloadRecordings
          \/ InvertChannelPolarity(0)
          \/ ApplyPreferences
          \/ \E v \in {OldVersion, DataVersion} : LoadPersisted(v)]_vars

\* a session whose state is saved and loaded, and loads of files written
\* before latency windows existed
SpecMigration ==
    Init
    /\ [][\/ ExcludeRecording(0)
          \/ RestoreRecording(0)
          \/ LoadPersisted(OldVersion)
          \/ \E file \in StoredFiles : SetState(file)]_vars

\* the mutators of a session and reads of its M-max
SpecMutation ==
    Init
    /\ [][\/ ExcludeRecording(0)
          \/ RestoreRecording(0)
          \/ \E c \in ChannelArgs : InvertChannelPolarity(c)
          \/ \E n \in RenameArgs : RenameChannels(n)
          \/ \E w \in WindowArgs : UpdateReflexLatencyWindows(w)
          \/ UpdateReflexParameters
          \/ ReadMmax]_vars

(***************************************************************************)
(* A dataset and its sessions                                              *)
(***************************************************************************)
\* a dataset is constructed from a list of sessions
InitDataset ==
    /\ experiment = NoExperiment
    /\ session = NewSession(1)
    /\ \E sids \in DatasetCases :
          \E res \in {dataset_init(ToSeq([i \in 1..Len(sids) |-> NewSession(sids[i])]))} :
             /\ dataset = res.ds
             /\ InitLast("dataset_init", Len(sids), res.report)

AddSession(sid, is_path) ==
    /\ Len(dataset.emg_sessions) < MaxSessions
    /\ \E res \in {add_session(dataset, NewSession(sid), is_path)} :
          /\ dataset' = res.ds
          /\ last' = DatasetCall("add_session", sid, res.raised, res.report, -1)
    /\ UNCHANGED <<session, experiment>>

RemoveSession(session_id) ==
    \E res \in {remove_session(dataset, session_id)} :
       /\ dataset' = res.ds
       /\ last' = DatasetCall("remove_session", session_id, res.raised, ConsistentReport, -1)
       /\ UNCHANGED <<session, experiment>>

ReloadSession(session_id) ==
    \E res \in {reload_session(dataset, session_id)} :
       /\ dataset' = res.ds
       /\ last' = DatasetCall("reload_session", session_id, res.raised, ConsistentReport, -1)
       /\ UNCHANGED <<session, experiment>>

DatasetInvertChannelPolarity(c) ==
    \E res \in {dataset_invert_channel_polarity(dataset, c)} :
       /\ dataset' = res.ds
       /\ last' = DatasetCall("dataset_invert_channel_polarity", c, res.raised, ConsistentReport, -1)
       /\ UNCHANGED <<session, experiment>>

DatasetUpdateReflexLatencyWindows(w) ==
    /\ dataset' = dataset_update_reflex_latency_windows(
                      dataset, w.m_start, w.m_duration, w.h_start, w.h_duration)
    /\ last' = DatasetCall("dataset_update_reflex_latency_windows", w, "none", ConsistentReport, -1)
    /\ UNCHANGED <<session, experiment>>

DatasetUpdateReflexParameters ==
    /\ dataset' = dataset_update_reflex_parameters(dataset)
    /\ last' = DatasetCall("dataset_update_reflex_parameters", 0, "none", ConsistentReport, -1)
    /\ UNCHANGED <<session, experiment>>

DatasetReadMmax ==
    \E res \in {dataset_m_max(dataset)} :
       /\ dataset' = res.ds
       /\ last' = DatasetCall("dataset_m_max", 0, res.raised, ConsistentReport, res.channel)
       /\ UNCHANGED <<session, experiment>>

\* exclude_recording on the session at position i of the dataset
ChildExcludeRecording(i, r) ==
    /\ i <= Len(dataset.emg_sessions)
    /\ \E res \in {exclude_recording(dataset.emg_sessions[i], r)} :
          /\ dataset' = [dataset EXCEPT !.emg_sessions[i] = res.s]
          /\ last' = DatasetCall("child_exclude_recording", r, res.raised, ConsistentReport, -1)
    /\ UNCHANGED <<session, experiment>>

\* restore_recording on the session at position i of the dataset
ChildRestoreRecording(i, r) ==
    /\ i <= Len(dataset.emg_sessions)
    /\ \E res \in {restore_recording(dataset.emg_sessions[i], r)} :
          /\ dataset' = [dataset EXCEPT !.emg_sessions[i] = res.s]
          /\ last' = DatasetCall("child_restore_recording", r, res.raised, ConsistentReport, -1)
    /\ UNCHANGED <<session, experiment>>

\* the dataset is saved and a file holding its state under the version tag
\* stored_version is loaded
LoadPersistedDataset(stored_version) ==
    \E res \in {load_persisted_dataset(dataset, stored_version)} :
       /\ dataset' = res.ds
       /\ last' = DatasetCall("load_dataset", stored_version, res.raised, ConsistentReport, -1)
       /\ UNCHANGED <<session, experiment>>

SessionIds(ds) == {ds.emg_sessions[i].session_id : i \in 1..Len(ds.emg_sessions)}

\* membership of a dataset and reads of its M-max; a session is added from
\* a source that is not in the dataset yet, as an object or (source 1) as
\* the path of its file
SpecDataset ==
    InitDataset
    /\ [][\/ \E sid \in (1..NumSessions) \ SessionIds(dataset) : AddSession(sid, FALSE)
          \/ (1 \notin SessionIds(dataset) /\ AddSession(1, TRUE))
          \/ \E sid \in 1..NumSessions : RemoveSession(sid)
          \/ DatasetReadMmax]_vars

\* the preferences of config.yml that enter an M-max: the extraction method
\* and the arguments of the plateau detector
Preferences ==
    [default_method : Methods,
     m_max_args : {DefaultMmaxArgs,
                   [DefaultMmaxArgs EXCEPT !.min_window_size = @ - 1],
                   [DefaultMmaxArgs EXCEPT !.threshold = RMul(@, RInt(2))]}]

\* the dataset is saved, the preferences become config, and the file is
\* loaded
LoadDataset(config) ==
    /\ dataset' = load_dataset(dataset, config)
    /\ last' = DatasetCall("load_dataset_config", config, "none", ConsistentReport, -1)
    /\ UNCHANGED <<session, experiment>>

\* reads of the M-max of a dataset, and saving and loading it under changed
\* preferences
SpecPreferences ==
    InitDataset /\ [][\/ DatasetReadMmax
                      \/ \E config \in Preferences : LoadDataset(config)]_vars

\* membership alone, a session being added from one of the first sources,
\* in the dataset or not, as an object or as the path of its file
SpecMembership ==
    InitDataset /\ [][\/ \E sid \in 1..MaxSessions, is_path \in BOOLEAN : AddSession(sid, is_path)
                      \/ \E sid \in 1..MaxSessions : RemoveSession(sid)]_vars

\* a dataset of sessions 1 and 2: its mutators and those of its first session
InitDatasetCache ==
    /\ experiment = NoExperiment
    /\ session = NewSession(1)
    /\ dataset = dataset_init(<<NewSession(1), NewSession(2)>>).ds
    /\ InitLast("dataset_init", 2, ConsistentReport)

SpecDatasetCache ==
    InitDatasetCache
    /\ [][\/ \E sid \in {1, NumSessions} : ReloadSession(sid)
          \/ DatasetInvertChannelPolarity(0)
          \/ \E w \in WindowArgs : DatasetUpdateReflexLatencyWindows(w)
          \/ DatasetUpdateReflexParameters
          \/ DatasetReadMmax
          \/ ChildExcludeRecording(1, 1)
          \/ ChildRestoreRecording(1, 1)]_vars

\* a dataset of sessions 1 and 2 that is read, changed through its first
\* session, saved and loaded under an old and under the running version tag
SpecDatasetMigration ==
    InitDatasetCache
    /\ [][\/ DatasetReadMmax
          \/ ChildExcludeRecording(1, 1)
          \/ ChildRestoreRecording(1, 1)
          \/ \E v \in {OldVersion, DataVersion} : LoadPersistedDataset(v)]_vars

\* detect_plateau or get_avg_mmax is about to be called on a curve with a
\* largest and a smallest window size and the default threshold
InitDetectPlateau ==
    /\ experiment = NoExperiment
    /\ session = NewSession(1)
    /\ dataset = dataset_init(<<NewSession(1)>>).ds
    /\ \E y \in Curves, max_window_size \in WindowSizes, min_window_size \in WindowSizes :
          InitLast("call_detect_plateau", <<y, max_window_size, min_window_size>>,
                   ConsistentReport)

DetectPlateau ==
    /\ last.op = "call_detect_plateau"
    /\ \E res \in {detect_plateau(AsRat(last.arg[1]), last.arg[2], last.arg[3],
                                   DefaultMmaxArgs.threshold)} :
          last' = [DatasetCall("detect_plateau", last.arg, res.raised, ConsistentReport, -1)
                   EXCEPT !.result = res]
    /\ UNCHANGED <<session, dataset, experiment>>

\* get_avg_mmax on the curve, asked for the stimulus range; the stimulus
\* voltages rise along the curve
GetAvgMmax ==
    /\ last.op = "call_detect_plateau"
    /\ \E res \in {get_avg_mmax(StimulusVoltages(last.arg[1]), AsRat(last.arg[1]),
                                 [max_window_size |-> last.arg[2],
                                  min_window_size |-> last.arg[3],
                                  threshold |-> DefaultMmaxArgs.threshold,
                                  return_mmax_stim_range |-> TRUE])} :
          last' = [DatasetCall("get_avg_mmax", last.arg, res.raised, ConsistentReport, -1)
                   EXCEPT !.result = res]
    /\ UNCHANGED <<session, dataset, experiment>>

SpecDetectPlateau == InitDetectPlateau /\ [][DetectPlateau \/ GetAvgMmax]_vars

\* parse_date is about to be called with a date string and a preferred format
InitParseDate ==
    /\ experiment = NoExperiment
    /\ session = NewSession(1)
    /\ dataset = dataset_init(<<NewSession(1)>>).ds
    /\ \E date_string \in DateStrings, preferred_format \in PreferredFormats :
          InitLast("call_parse_date", <<date_string, preferred_format>>, ConsistentReport)

ParseDate ==
    /\ last.op = "call_parse_date"
    /\ last' = [DatasetCall("parse_date", last.arg, "none", ConsistentReport, -1)
                 EXCEPT !.result = parse_date(last.arg[1], last.arg[2])]
    /\ UNCHANGED <<session, dataset, experiment>>

SpecParseDate == InitParseDate /\ [][ParseDate]_vars

\* a dataset whose sessions come and go and whose latency windows are set
SpecWindows ==
    InitDataset
    /\ [][\/ \E sid \in {2, 3} \ SessionIds(dataset) : AddSession(sid, FALSE)
          \/ \E sid \in {2, 3} : RemoveSession(sid)
          \/ \E w \in WindowArgs : DatasetUpdateReflexLatencyWindows(w)
          \/ DatasetUpdateReflexParameters]_vars

\* EMGSession._process_emg_data on its worker pool.  The call in flight is
\* kept in last.result.  objects are the recording objects handed to
\* executor.map and ref[i] is the object task i works on: copy.deepcopy
\* keeps an object that the list holds twice a single object of the copy
\* (and without a transform the tasks are the session's own objects, which
\* no worker writes to).  pc is where the worker of each task stands and
\* finished is the order in which the workers returned.  A worker step is a
\* whole loop over the channels of its recording.
PoolCall(s, apply_filter, rectify) ==
    LET raw == s.recordings_raw
        same(i, j) == raw[i].orig # 0 /\ raw[i].orig = raw[j].orig
    IN [objects |-> RawView(s),
        ref |-> ToSeq([i \in 1..Len(raw) |->
                   CHOOSE j \in 1..i :
                      /\ j = i \/ same(i, j)
                      /\ \A k \in 1..(j - 1) : ~same(i, k)]),
        pc |-> ToSeq([i \in 1..Len(raw) |-> "queued"]),
        finished |-> << >>,
        value |-> << >>]

\* results taken in the order in which the workers returned
executor_map_as_completed(pool) ==
    ToSeq([k \in 1..Len(pool.finished) |-> pool.objects[pool.ref[pool.finished[k]]]])

\* list(executor.map(...)): the results in the order of the submitted tasks
executor_map(pool) ==
    ToSeq([i \in 1..Len(pool.ref) |-> pool.objects[pool.ref[i]]])

\* the call starts: the copy is taken and every recording is submitted
ProcessEmgData(apply_filter, rectify) ==
    /\ last.op # "process_emg_data"
    /\ last' = [SessionCall("process_emg_data", <<apply_filter, rectify>>, "none")
                EXCEPT !.result = PoolCall(session, apply_filter, rectify)]
    /\ UNCHANGED <<session, dataset, experiment>>

\* a worker runs the filter loop of __process_single_recording on its task
WorkerFilter(i) ==
    /\ last.op = "process_emg_data"
    /\ i \in 1..Len(last.result.pc)
    /\ last.result.pc[i] = "queued"
    /\ last' = [last EXCEPT
                   !.result.objects[last.result.ref[i]] =
                       process_single_recording(@, last.arg[1], FALSE),
                   !.result.pc[i] = "filtered"]
    /\ UNCHANGED <<session, dataset, experiment>>

\* the worker rectifies its task and returns it
WorkerRectify(i) ==
    /\ last.op = "process_emg_data"
    /\ i \in 1..Len(last.result.pc)
    /\ last.result.pc[i] = "filtered"
    /\ last' = [last EXCEPT
                   !.result.objects[last.result.ref[i]] =
                       process_single_recording(@, FALSE, last.arg[2]),
                   !.result.pc[i] = "returned",
                   !.result.finished = Append(@, i)]
    /\ UNCHANGED <<session, dataset, experiment>>

\* every worker has returned: the call returns the list of results
ProcessEmgDataReturn ==
    /\ last.op = "process_emg_data"
    /\ Len(last.result.finished) = Len(last.result.pc)
    /\ last' = [last EXCEPT !.op = "process_emg_data_returned",
                            !.result.value = executor_map(last.result)]
    /\ UNCHANGED <<session, dataset, experiment>>

\* The session calls are made between batch transforms, with the last
\* recording_id and with -1, which restore_recording takes as the last
\* position of the backup; recordings_raw is kept within one recording more
\* than the backup holds.
PoolRecordingArgs == {NumRecordings - 1, -1}

\* a session is constructed for the batch transforms
InitPool ==
    /\ experiment = NoExperiment
    /\ session = NewSession(1)
    /\ dataset = dataset_init(<<NewSession(1)>>).ds
    /\ InitLast("init", 0, ConsistentReport)

PoolExcludeRecording(r) ==
    /\ last.op # "process_emg_data"
    /\ ExcludeRecording(r)

PoolRestoreRecording(r) ==
    /\ last.op # "process_emg_data"
    /\ Len(session.recordings_raw) <= NumRecordings
    /\ RestoreRecording(r)

SpecPool ==
    InitPool /\ [][\/ \E apply_filter, rectify \in BOOLEAN : ProcessEmgData(apply_filter, rectify)
                   \/ \E i \in 1..(NumRecordings + 1) : WorkerFilter(i)
                   \/ \E i \in 1..(NumRecordings + 1) : WorkerRectify(i)
                   \/ ProcessEmgDataReturn
                   \/ \E r \in PoolRecordingArgs : PoolExcludeRecording(r)
                   \/ \E r \in PoolRecordingArgs : PoolRestoreRecording(r)]_vars

\* new_names of rename_channels: a dict of one name up to one name more
\* than a session has channels, as its items
NewNames ==
    LET keys == <<"LG", "TA", "Sol">>
        named(values, n) == ToSeq([i \in 1..n |-> <<keys[i], values[i]>>])
    IN {named(values, n) : values \in {<<"MG", "EDL", "PL">>, <<"VL", "RF", "BF">>},
                           n \in 1..(NumChannels + 1)}

\* an experiment of two datasets is constructed
InitExperiment ==
    /\ session = NewSession(1)
    /\ dataset = dataset_init(<<NewSession(1)>>).ds
    /\ experiment = experiment_init(<<dataset_init(<<NewSession(1), NewSession(2)>>).ds,
                                      dataset_init(<<NewSession(3)>>).ds>>)
    /\ InitLast("experiment_init", 0, ConsistentReport)

\* rename_channels on the experiment
ExperimentRenameChannels(new_names) ==
    /\ experiment' = experiment_rename_channels(experiment, new_names)
    /\ last' = DatasetCall("experiment_rename_channels", <<0, 0, new_names>>,
                           "none", ConsistentReport, -1)
    /\ UNCHANGED <<session, dataset>>

\* rename_channels on dataset d of the experiment
ExperimentDatasetRenameChannels(d, new_names) ==
    /\ d <= Len(experiment.emg_datasets)
    /\ experiment' = shared_channel_names(
                        [experiment EXCEPT !.emg_datasets[d] =
                            dataset_rename_channels(@, new_names)])
    /\ last' = DatasetCall("dataset_rename_channels", <<d, 0, new_names>>,
                           "none", ConsistentReport, -1)
    /\ UNCHANGED <<session, dataset>>

\* rename_channels on session i of dataset d of the experiment
ExperimentSessionRenameChannels(d, i, new_names) ==
    /\ d <= Len(experiment.emg_datasets)
    /\ i <= Len(experiment.emg_datasets[d].emg_sessions)
    /\ experiment' = shared_channel_names(
                        [experiment EXCEPT !.emg_datasets[d].emg_sessions[i] =
                            session_rename_channels(@, new_names)])
    /\ last' = DatasetCall("session_rename_channels", <<d, i, new_names>>,
                           "none", ConsistentReport, -1)
    /\ UNCHANGED <<session, dataset>>

SpecRename ==
    InitExperiment
    /\ [][\/ \E new_names \in NewNames : ExperimentRenameChannels(new_names)
          \/ \E d \in 1..2, new_names \in NewNames :
                ExperimentDatasetRenameChannels(d, new_names)
          \/ \E d \in 1..2, i \in 1..2, new_names \in NewNames :
                ExperimentSessionRenameChannels(d, i, new_names)]_vars

(***************************************************************************)
(* Properties                                                              *)
(***************************************************************************)
ActiveIds(s) == {RawView(s)[i].recording_id : i \in 1..Len(s.recordings_raw)}

\* the recordings of a session as its constructor numbered them
ConstructionRecordings(s) ==
    initialize_from_data(SessionData(s.session_id), s.default_method)._original_recordings

\* what the caches of s hold if they are computed from s as it is
FreshProcessed(s) == process_emg_data(RawView(s), TRUE, FALSE)
FreshMmax(s) == m_max_loop(s, FreshProcessed(s), 0, << >>)

CachesFresh(s) ==
    /\ s._recordings_processed.set => s._recordings_processed.v = FreshProcessed(s)
    /\ s._m_max.set => s._m_max.v = FreshMmax(s)

\* C1: in every state reached by exclude_recording, restore_recording,
\* reload_recordings and invert_channel_polarity with any integer arguments,
\* the active recording ids and excluded_recordings are disjoint, their union
\* is the set of ids given at construction, and
\* len(recordings_raw) + |excluded_recordings| = num_recordings.
C1_ActiveAndExcludedPartitionIds ==
    LET construction == 0..(session.num_recordings - 1)
    IN /\ ActiveIds(session) \cap session.excluded_recordings = {}
       /\ ActiveIds(session) \cup session.excluded_recordings = construction
       /\ Len(session.recordings_raw) + Cardinality(session.excluded_recordings)
              = session.num_recordings

\* C2: exclude_recording(r) with r already excluded and restore_recording(r)
\* with r not excluded raise ValueError and leave the whole session
\* (recordings_raw, excluded_recordings, the backup, both caches) as it was.
C2_FailedCallChangesNothing ==
    [][/\ (last'.op = "exclude_recording" /\ last'.arg \in session.excluded_recordings)
             => (last'.raised = "ValueError" /\ session' = session)
       /\ (last'.op = "restore_recording" /\ last'.arg \notin session.excluded_recordings)
             => (last'.raised = "ValueError" /\ session' = session)]_vars

\* an exclude_recording of an excluded recording has failed on a session
\* whose caches were filled
C2_Witness ==
    /\ last.op = "exclude_recording"
    /\ last.raised = "ValueError"
    /\ last.arg \in session.excluded_recordings
    /\ session._m_max.set
    /\ session._recordings_processed.set

\* C3: from every state reached by exclude, restore, reload and invert, and
\* for every active recording id r, exclude_recording(r) followed by
\* restore_recording(r) gives back the same active list (ids, order, stimulus
\* voltages, channel data), the same excluded set and the same M-max.
C3_ExcludeThenRestoreIsIdentity ==
    \A r \in ActiveIds(session) :
        LET excluded == exclude_recording(session, r)
            restored == restore_recording(excluded.s, r)
        IN /\ excluded.raised = "none"
           /\ restored.raised = "none"
           /\ RawView(restored.s) = RawView(session)
           /\ restored.s.excluded_recordings = session.excluded_recordings
           /\ session_m_max(restored.s)._m_max.v = session_m_max(session)._m_max.v

\* C4: after any sequence of exclude_recording and restore_recording calls,
\* reload_recordings leaves recordings_raw equal to the recordings of the
\* construction in ascending recording_id order, excluded_recordings empty
\* and both caches computed from that list.
C4_ReloadRestoresConstruction ==
    last.op = "reload_recordings" =>
        /\ RawView(session) = ConstructionRecordings(session)
        /\ \A i \in 1..Len(session.recordings_raw) :
              RawView(session)[i].recording_id = i - 1
        /\ session.excluded_recordings = {}
        /\ session._recordings_processed = Cached(FreshProcessed(session))
        /\ session._m_max = Cached(FreshMmax(session))

\* a reload has followed the exclusion of two recordings
C4_Witness ==
    /\ last.op = "reload_recordings"
    /\ {0, 1} \subseteq last.pre_excluded
    /\ Len(session.recordings_raw) = NumRecordings

\* C5: a recording keeps the recording_id it got at construction through
\* exclude, restore, reload, invert, apply_preferences, save/load and version
\* migration: every recording of the active list and of the backup carries
\* the id the constructor gave to the recording of its stimulus voltage, and
\* an excluded id names no active recording.
C5_RecordingIdsNeverChange ==
    LET construction == ConstructionRecordings(session)
        kept(rec) == \E k \in 1..Len(construction) :
                        /\ construction[k].stimulus_v = rec.stimulus_v
                        /\ construction[k].recording_id = rec.recording_id
    IN /\ \A i \in 1..Len(session.recordings_raw) : kept(RawView(session)[i])
       /\ \A k \in 1..Len(session._original_recordings) :
             kept(session._original_recordings[k])
       /\ ActiveIds(session) \cap session.excluded_recordings = {}

MutatorOps ==
    {"exclude_recording", "restore_recording", "invert_channel_polarity",
     "rename_channels", "update_reflex_parameters"}

\* C6: when a successful exclude_recording, restore_recording,
\* invert_channel_polarity, rename_channels or update_reflex_latency_windows
\* followed by update_reflex_parameters returns, each cache of the session is
\* empty or holds what is computed from the session as it is now.
C6_MutatorsInvalidateCaches ==
    (last.op \in MutatorOps /\ last.raised = "none") => CachesFresh(session)

\* C7: the dataset's _m_max is empty or equal to what the read computes from
\* the current M-max values of its current sessions.
C7_DatasetCacheNeverStale ==
    dataset._m_max.set =>
        LET fresh == dataset_m_max([dataset EXCEPT !._m_max = NoCache])
        IN fresh.raised = "none" /\ fresh.ds._m_max.v = dataset._m_max.v

\* the M-max of channel channel_idx of s, computed by itself
ChannelMmax(s, channel_idx) ==
    LET proc == FreshProcessed(s)
        r == get_avg_mmax(ToSeq([i \in 1..Len(proc) |-> proc[i].stimulus_v]),
                          m_wave_amplitudes(s, proc, channel_idx), s.m_max_args)
    IN IF r.raised = "none" THEN r.value ELSE None

\* C8: a session's m_max is a list of num_channels entries; the entry of a
\* channel whose plateau detection fails is None, and every entry is what
\* the channel gives by itself, whatever happens to the other channels.
C8_MmaxHasOneEntryPerChannel ==
    session._m_max.set =>
        /\ Len(session._m_max.v) = session.num_channels
        /\ \A c \in 0..(session.num_channels - 1) :
              session._m_max.v[c + 1] = ChannelMmax(session, c)

\* m_max was read on a session whose first channel fails and whose second
\* channel has an M-max
C8_Witness ==
    /\ last.op = "m_max"
    /\ session._m_max.set
    /\ session._m_max.v[1] = None
    /\ session._m_max.v[2] # None

\* the M-max values the sessions of ds report for channel channel_index
ChannelColumn(ds, channel_index) ==
    ToSeq([i \in 1..Len(ds.emg_sessions) |-> ds.emg_sessions[i]._m_max.v[channel_index + 1]])

NotNone(column) == SelectSeq(column, LAMBDA v : v # None)

\* every session of ds has an M-max entry for every channel of ds
ChannelsCovered(ds) ==
    \A i \in 1..Len(ds.emg_sessions) :
        /\ ds.emg_sessions[i]._m_max.set
        /\ Len(ds.emg_sessions[i]._m_max.v) >= ds.num_channels

Differs(emg_sessions, i, field) == emg_sessions[i][field] # emg_sessions[1][field]

CheckedFields == {"scan_rate", "num_channels", "stim_start"}

\* C10: the consistency check made by the construction of a dataset and by
\* add_session reports an inconsistency exactly when a session differs from
\* the first in scan_rate, num_channels or stim_start, and then names such a
\* session, a field in which it differs and both values; nothing is raised,
\* the sessions given are in emg_sessions, and every session keeps the
\* scan_rate, num_channels and stim_start of its source.
C10_ConsistencyReport ==
    LET ss == dataset.emg_sessions
    IN /\ \A i \in 1..Len(ss) :
             \A field \in CheckedFields : ss[i][field] = NewSession(ss[i].session_id)[field]
       /\ last.op \in {"dataset_init", "add_session"} =>
             /\ last.raised = "none"
             /\ last.report.consistent
                   <=> ~\E i \in 1..Len(ss), field \in CheckedFields : Differs(ss, i, field)
             /\ ~last.report.consistent =>
                   \E i \in 2..Len(ss) :
                      /\ last.report.session_id = ss[i].session_id
                      /\ last.report.field \in CheckedFields
                      /\ Differs(ss, i, last.report.field)
                      /\ last.report.value = ss[i][last.report.field]
                      /\ last.report.reference = ss[1][last.report.field]
             /\ last.op = "add_session" => last.arg \in SessionIds(dataset)
             /\ last.op = "dataset_init" => Len(ss) = last.arg

\* add_session has reported a third session that differs from the first in
\* stim_start only
C10_Witness ==
    /\ last.op = "add_session"
    /\ Len(dataset.emg_sessions) = 3
    /\ ~last.report.consistent
    /\ last.report.field = "stim_start"
    /\ last.report.session_id = last.arg

\* C11: emg_sessions is in ascending session_id order after construction
\* and after every add_session (of a session object or of a file path) and
\* remove_session.
C11_SessionsSortedById ==
    \A i \in 1..(Len(dataset.emg_sessions) - 1) :
        dataset.emg_sessions[i].session_id <= dataset.emg_sessions[i + 1].session_id

\* the latency windows and the reflex parameters of entity e hold setting w
HoldsWindows(e, w) ==
    /\ \E i \in 1..Len(e.latency_windows) :
          /\ e.latency_windows[i].name = "M-wave"
          /\ e.latency_windows[i].start_times = w.m_start
          /\ e.latency_windows[i].durations = w.m_duration
    /\ \E i \in 1..Len(e.latency_windows) :
          /\ e.latency_windows[i].name = "H-reflex"
          /\ e.latency_windows[i].start_times = w.h_start
          /\ e.latency_windows[i].durations = w.h_duration
    /\ e.m_start = w.m_start /\ e.m_duration = w.m_duration
    /\ e.h_start = w.h_start /\ e.h_duration = w.h_duration

\* C12: when update_reflex_parameters returns on a dataset on which
\* update_reflex_latency_windows(m_start, m_duration, h_start, h_duration)
\* was called just before, the M-wave and H-reflex windows and the
\* m_start, m_duration, h_start, h_duration of the dataset and of each of
\* its sessions hold the given values.
C12_WindowsReachEveryEntity ==
    [][(last.op = "dataset_update_reflex_latency_windows"
          /\ last'.op = "dataset_update_reflex_parameters")
         => /\ HoldsWindows(dataset', last.arg)
            /\ \A i \in 1..Len(dataset'.emg_sessions) :
                  HoldsWindows(dataset'.emg_sessions[i], last.arg)]_vars

\* C13: an in-place change of an item of the start_times or the durations of
\* a latency window of the dataset or of one of its sessions leaves the
\* start_times and durations seen through every other entity's latency
\* windows as they were.  The item assigned, 9, is a value no window holds.
C13_WindowListsNotShared ==
    \A who \in 0..Len(dataset.emg_sessions) :
      \A w \in 1..Len(EntityWindows(dataset, who)) :
        \A field \in {"start_times", "durations"} :
          \A k \in 1..Len(EntityWindows(dataset, who)[w][field]) :
            \A other \in (0..Len(dataset.emg_sessions)) \ {who} :
                EntityWindows(set_window_item(dataset, who, w, field, k, 9), other)
                    = EntityWindows(dataset, other)

\* C13 restricted to entities no update_reflex_latency_windows call has
\* reached since their construction
C13_FreshWindowsNotShared ==
    (last.op = "dataset_init") => C13_WindowListsNotShared

\* the channel names a rename by key gives: a name that is a key of
\* new_names becomes the value mapped to it, any other name stays
RenamedByKey(names, new_names) ==
    ToSeq([i \in 1..Len(names) |->
        IF \E j \in 1..Len(new_names) : new_names[j][1] = names[i]
        THEN new_names[CHOOSE j \in 1..Len(new_names) : new_names[j][1] = names[i]][2]
        ELSE names[i]])

\* C14: rename_channels(new_names) gives the channels whose current name is
\* a key of new_names the mapped name and leaves every other channel name
\* as it was.
C14_RenameByKey ==
    [][(last'.op = "rename_channels")
         => session'.channel_names = RenamedByKey(session.channel_names, last'.arg)]_vars

\* the recording sets of a session: the active recordings, the excluded ids
\* and the backup
RecordingSets(s) ==
    [active |-> RawView(s),
     excluded |-> s.excluded_recordings,
     backup |-> s._original_recordings]

\* C15: loading a persisted session, under the running version or under a
\* version below the migration threshold, gives a session with the active
\* recordings, the excluded set and the backup of the session that was saved.
C15_LoadKeepsRecordingSets ==
    [][(last'.op = "load" /\ last'.raised = "none")
         => RecordingSets(session') = RecordingSets(session)]_vars

\* C15 for a state stored under the running version
C15_LoadCurrentVersionKeepsRecordingSets ==
    [][(last'.op = "load" /\ last'.raised = "none" /\ last'.arg = DataVersion)
         => RecordingSets(session') = RecordingSets(session)]_vars

\* the version __setstate__ hands to the upgrade of a stored state
StoredVersion(file) ==
    IF "version" \in file.keys THEN file.version ELSE DefaultStoredVersion

\* C16: loading a stored state of a session, dataset or experiment that has
\* no latency_windows and whose version is below the threshold raises
\* ValueError out of the load and changes no entity; the message holds the
\* formatted_name of the state when it has one and is the generic message
\* when it has none.
C16_TooOldStateFails ==
    [][(last'.op = "setstate" /\ StoredVersion(last'.arg) < UpgradeThreshold)
         => /\ last'.raised = "ValueError"
            /\ session' = session /\ dataset' = dataset
            /\ IF "formatted_name" \in last'.arg.keys
               THEN \E i \in 1..Len(last'.message) :
                       last'.message[i] = last'.arg.formatted_name
               ELSE last'.message = TooOldMessage(FALSE, "")]_vars

\* the load of a named state of an experiment stored under an old version
\* has failed while the session in memory has an excluded recording
C16_Witness ==
    /\ last.op = "setstate"
    /\ last.raised = "ValueError"
    /\ last.arg.level = "experiment"
    /\ "formatted_name" \in last.arg.keys
    /\ "version" \in last.arg.keys
    /\ session.excluded_recordings # {}

\* the names of the formats a date string is a calendar date under, and that
\* date
ValidEncodings(date_string) ==
    LET formats == DateFormats(Len(date_string))
    IN {formats[i][2] : i \in {j \in 1..Len(formats) : strptime(date_string, formats[j][1]).ok}}

DateUnder(date_string, format_name) ==
    LET formats == DateFormats(Len(date_string))
    IN strptime(date_string,
                formats[CHOOSE i \in 1..Len(formats) : formats[i][2] = format_name][1]).date

\* the first format of the priority order the string is valid under
FirstValid(date_string) ==
    LET formats == DateFormats(Len(date_string))
        valid == {i \in 1..Len(formats) : formats[i][2] \in ValidEncodings(date_string)}
    IN formats[CHOOSE i \in valid : \A j \in valid : i <= j][2]

\* C17: for a string of 6 or 8 digits that is a calendar date under more
\* than one format, parse_date returns the date and the name of the
\* preferred format when that is given and the string is valid under it, and
\* otherwise those of the first valid format in the order YYMMDD, DDMMYY,
\* MMDDYY (YYYYMMDD, DDMMYYYY, MMDDYYYY), with the ambiguity warning.
C17_AmbiguousDatePriority ==
    (last.op = "parse_date" /\ Cardinality(ValidEncodings(last.arg[1])) > 1)
        => LET date_string == last.arg[1]
               preferred_format == last.arg[2]
               expected == IF preferred_format \in ValidEncodings(date_string)
                           THEN preferred_format
                           ELSE FirstValid(date_string)
           IN /\ last.result.parsed
              /\ last.result.info = expected
              /\ last.result.date = DateUnder(date_string, expected)
              /\ (preferred_format \notin ValidEncodings(date_string)) => last.result.warned

\* 010201 is a date under all three formats; with MMDDYY preferred
\* parse_date has returned 2 January 2001
C17_Witness ==
    /\ last.op = "parse_date"
    /\ last.arg = << <<0, 1, 0, 2, 0, 1>>, "MMDDYY" >>
    /\ ValidEncodings(last.arg[1]) = {"YYMMDD", "DDMMYY", "MMDDYY"}
    /\ last.result.info = "MMDDYY"
    /\ last.result.date = [year |-> 2001, month |-> 1, day |-> 2]

\* the value held under a key of a session, the list of active recordings
\* taken with the recordings it refers to
KeyValue(s, key) == IF key = "recordings_raw" THEN RawView(s) ELSE s[key]

\* C18: after a successful migration of a session stored under a version
\* below the threshold, every key of the stored state outside the ignored
\* set holds the value it had in the stored state.
C18_MigrationKeepsOldValues ==
    [][(last'.op = "load" /\ last'.raised = "none" /\ last'.arg < UpgradeThreshold)
         => \A key \in (DOMAIN session) \ IgnoreKeysSession :
               KeyValue(session', key) = KeyValue(session, key)]_vars

\* C18 for every key but the list of active recordings
C18_MigrationKeepsOtherKeys ==
    [][(last'.op = "load" /\ last'.raised = "none" /\ last'.arg < UpgradeThreshold)
         => \A key \in (DOMAIN session) \ (IgnoreKeysSession \cup {"recordings_raw"}) :
               KeyValue(session', key) = KeyValue(session, key)]_vars

\* C19: after a successful migration of a dataset stored under a version
\* below the threshold, the dataset and each of its sessions carry the
\* running version and an empty M-max cache.
C19_MigrationDropsIgnoredKeys ==
    [][(last'.op = "load_dataset" /\ last'.raised = "none"
          /\ last'.arg < UpgradeThreshold)
         => /\ dataset'.version = DataVersion
            /\ ~dataset'._m_max.set
            /\ \A i \in 1..Len(dataset'.emg_sessions) :
                  /\ dataset'.emg_sessions[i].version = DataVersion
                  /\ ~dataset'.emg_sessions[i]._m_max.set]_vars

\* C19 for the version and the sessions of the dataset
C19_DatasetMigrationResetsSessions ==
    [][(last'.op = "load_dataset" /\ last'.raised = "none"
          /\ last'.arg < UpgradeThreshold)
         => /\ dataset'.version = DataVersion
            /\ \A i \in 1..Len(dataset'.emg_sessions) :
                  /\ dataset'.emg_sessions[i].version = DataVersion
                  /\ ~dataset'.emg_sessions[i]._m_max.set]_vars

\* C19 for a session loaded by itself
C19_SessionMigrationDropsIgnoredKeys ==
    [][(last'.op = "load" /\ last'.raised = "none" /\ last'.arg < UpgradeThreshold)
         => /\ session'.version = DataVersion
            /\ ~session'._m_max.set]_vars

\* the window positions detect_plateau scans on y with window size w, and
\* those whose window has a standard deviation below the threshold
ScannedPositions(y, w) == 0..(Len(y) - w - 1)
BelowThreshold(y, w) ==
    {i \in ScannedPositions(y, w) :
        StdBelow(Slice(AsRat(y), i, i + w), DefaultMmaxArgs.threshold)}

\* the first and the last position of the leftmost run of positions below
\* the threshold
FirstRunStart(y, w) ==
    CHOOSE i \in BelowThreshold(y, w) : \A j \in BelowThreshold(y, w) : i <= j
FirstRunLast(y, w) ==
    CHOOSE k \in BelowThreshold(y, w) :
        /\ (FirstRunStart(y, w)..k) \subseteq BelowThreshold(y, w)
        /\ (k + 1) \notin BelowThreshold(y, w)

\* C20: for one window size, detect_plateau returns the leftmost maximal run
\* of window positions whose standard deviation is below the threshold: the
\* start index is the first position of that run and the end index is the
\* end of the last window of that run.
C20_FirstRunReturned ==
    (last.op = "detect_plateau" /\ last.arg[2] = last.arg[3]
       /\ BelowThreshold(last.arg[1], last.arg[2]) # {})
        => /\ last.result.start = FirstRunStart(last.arg[1], last.arg[2])
           /\ last.result.end = FirstRunLast(last.arg[1], last.arg[2]) + last.arg[2]

\* what the loop does return: the run that reaches the last scanned
\* position, and nothing when the last scanned window is not below the
\* threshold
C20_TrailingRunReturned ==
    (last.op = "detect_plateau" /\ last.arg[2] = last.arg[3])
        => LET y == last.arg[1]
               w == last.arg[2]
               final == Len(y) - w - 1
               below == BelowThreshold(y, w)
           IN IF final \in below
              THEN /\ last.result.end = final + w
                   /\ (last.result.start..final) \subseteq below
                   /\ (last.result.start - 1) \notin below
              ELSE last.result.start = -1 /\ last.result.end = -1

\* the window sizes detect_plateau may try, and those that yield a plateau
\* when tried by themselves
TriedSizes(max_window_size, min_window_size) ==
    IF max_window_size >= min_window_size
    THEN min_window_size..max_window_size
    ELSE {max_window_size}
YieldingSizes(y, max_window_size, min_window_size) ==
    {w \in TriedSizes(max_window_size, min_window_size) :
        detect_plateau(AsRat(y), w, w, DefaultMmaxArgs.threshold).start # -1}

C21_WitnessInverted ==
    /\ last.op \in {"detect_plateau", "get_avg_mmax"}
    /\ last.arg[2] < last.arg[3]

\* the positions of all windows of w points of y (the last one ends at the
\* last point) whose standard deviation is below the threshold
AllBelowThreshold(y, w) ==
    {i \in 0..(Len(y) - w) :
        StdBelow(Slice(AsRat(y), i, i + w), DefaultMmaxArgs.threshold)}

\* C22: with one window size w <= n on a curve of n points, a curve whose
\* only window below the threshold is the one of its last w points yields
\* the plateau (n - w, n).
C22_LastWindowTested ==
    (last.op = "detect_plateau" /\ last.arg[2] = last.arg[3]
       /\ AllBelowThreshold(last.arg[1], last.arg[2]) = {Len(last.arg[1]) - last.arg[2]})
        => /\ last.result.start = Len(last.arg[1]) - last.arg[2]
           /\ last.result.end = Len(last.arg[1])

\* what the loop does: the last window is never tested, so the positions
\* tested are 0 .. n - w - 1 and no plateau ends at the last point
C22_LastWindowSkipped ==
    (last.op = "detect_plateau" /\ last.result.start # -1)
        => last.result.end < Len(last.arg[1])

\* C23: when get_avg_mmax is asked for the stimulus range and finds a
\* plateau, the voltages returned are those of the first and of the last
\* sample of the plateau mean, the samples at plateau_start_idx and
\* plateau_end_idx - 1.
C23_StimRangeOfPlateau ==
    (last.op = "get_avg_mmax" /\ last.raised = "none")
        => LET p == detect_plateau(AsRat(last.arg[1]), last.arg[2], last.arg[3],
                                   DefaultMmaxArgs.threshold)
               x == StimulusVoltages(last.arg[1])
           IN last.result.stim_range = <<x[p.start + 1], x[(p.end - 1) + 1]>>

\* the indices get_avg_mmax uses, plateau_start_idx and plateau_end_idx, are
\* within the stimulus voltages, and the second voltage returned is the one
\* of the sample after the plateau
C23_StimRangeIndicesInBounds ==
    (last.op = "get_avg_mmax" /\ last.raised = "none")
        => LET p == detect_plateau(AsRat(last.arg[1]), last.arg[2], last.arg[3],
                                   DefaultMmaxArgs.threshold)
               x == StimulusVoltages(last.arg[1])
           IN /\ 0 <= p.start /\ p.start < p.end /\ p.end <= Len(x) - 1
              /\ last.result.stim_range = <<x[p.start + 1], x[p.end + 1]>>

\* C30: whenever get_avg_mmax finds a plateau, the M-max it returns is a
\* number.
C30_MmaxIsANumber ==
    (last.op = "get_avg_mmax" /\ last.raised = "none") => IsNum(last.result.value)

\* get_avg_mmax returns a number when the bias correction does not apply:
\* the mean of the plateau is not below the largest amplitude of the curve
C30_UncorrectedMmaxIsANumber ==
    (last.op = "get_avg_mmax" /\ last.raised = "none")
        => LET y == AsRat(last.arg[1])
               p == detect_plateau(y, last.arg[2], last.arg[3], DefaultMmaxArgs.threshold)
           IN ~RLess(RMean(Slice(y, p.start, p.end)), RMax(y))
                 => IsNum(last.result.value)

(***************************************************************************)
(* C24: the batch transform on the worker pool returns one result per      *)
(* input recording in the input order (same recording_id and stimulus_v at *)
(* each position) whatever the order in which the workers finish; each     *)
(* result is the transform of its own recording, with the filter applied   *)
(* before the rectification when both are requested; and recordings_raw is *)
(* left unchanged.                                                         *)
(***************************************************************************)
\* the transform of one recording: filter first, then rectify
Transformed(rec, apply_filter, rectify) ==
    LET filtered(x) == IF apply_filter THEN butter_bandpass_filter(x) ELSE x
        rectified(x) == IF rectify THEN rectify_emg(x) ELSE x
    IN [rec EXCEPT !.channel_data = ToSeq([c \in 1..Len(@) |-> rectified(filtered(@[c]))])]

PoolReturns == last.op = "process_emg_data" /\ last'.op = "process_emg_data_returned"

PoolResultIsTransform ==
    LET input == RawView(session)
        value == last'.result.value
    IN /\ Len(value) = Len(input)
       /\ \A i \in 1..Len(input) :
             /\ value[i].recording_id = input[i].recording_id
             /\ value[i].stimulus_v = input[i].stimulus_v
             /\ value[i] = Transformed(input[i], last.arg[1], last.arg[2])

PoolLeavesRawUnchanged ==
    (last.op = "process_emg_data" \/ last'.op = "process_emg_data") => session' = session

C24_PoolResultsPositional ==
    [][/\ PoolReturns => PoolResultIsTransform
       /\ PoolLeavesRawUnchanged]_vars

\* the same over the calls whose recordings are distinct objects
DistinctObjects == \A i \in 1..Len(last.result.ref) : last.result.ref[i] = i

C24_DistinctObjectsPositional ==
    [][/\ (PoolReturns /\ DistinctObjects) => PoolResultIsTransform
       /\ PoolLeavesRawUnchanged]_vars

\* both transforms were requested and the workers returned in another order
\* than the input order
C24_Witness ==
    /\ last.op = "process_emg_data_returned"
    /\ last.arg = <<TRUE, TRUE>>
    /\ DistinctObjects
    /\ Len(last.result.value) = NumRecordings
    /\ last.result.finished[1] = NumRecordings

\* the list holds the backup's last recording twice
C24_WitnessSameObject ==
    /\ last.op = "process_emg_data_returned"
    /\ last.arg = <<TRUE, TRUE>>
    /\ ~DistinctObjects

(***************************************************************************)
(* C25: the backup _original_recordings is never modified after            *)
(* construction: in every state reached by exclude_recording,              *)
(* restore_recording, invert_channel_polarity, reload_recordings and reads *)
(* of recordings_processed and m_max its content is the recording set      *)
(* captured at construction, and no recording object of recordings_raw is  *)
(* an object of the backup.                                                *)
(***************************************************************************)
BackupAtConstruction == NewSession(session.session_id)._original_recordings

BackupUnmodified == session._original_recordings = BackupAtConstruction

NoObjectShared == \A i \in 1..Len(session.recordings_raw) : session.recordings_raw[i].orig = 0

C25_BackupPristine == BackupUnmodified /\ NoObjectShared

\* the content alone (it stays when invert_channel_polarity is not called)
C25_BackupUnmodified == BackupUnmodified

(***************************************************************************)
(* C26: a dataset never holds two sessions with the same session_id:       *)
(* add_session of a session, given as an object or as a file path, whose   *)
(* session_id is already present leaves emg_sessions unchanged, so that    *)
(* after any sequence of add_session and remove_session the session_ids    *)
(* are pairwise distinct.                                                  *)
(***************************************************************************)
C26_SessionIdsDistinct ==
    Cardinality(SessionIds(dataset)) = Len(dataset.emg_sessions)

C26_AddPresentIdChangesNothing ==
    [][(last'.op = "add_session" /\ last'.arg \in SessionIds(dataset))
          => dataset'.emg_sessions = dataset.emg_sessions]_vars

\* remove_session takes every session of the id away
C26_RemoveTakesEveryDuplicate ==
    [][last'.op = "remove_session" => last'.arg \notin SessionIds(dataset')]_vars

(***************************************************************************)
(* C27: in every state reached by rename_channels calls at session,        *)
(* dataset or experiment level, with any number of names, every session    *)
(* has exactly num_channels channel names, and a rename issued on one      *)
(* entity changes the channel names only of that entity and its            *)
(* descendants.                                                            *)
(***************************************************************************)
SessionsHaveNumChannelsNames(e) ==
    \A d \in 1..Len(e.emg_datasets) :
       \A i \in 1..Len(e.emg_datasets[d].emg_sessions) :
          Len(e.emg_datasets[d].emg_sessions[i].channel_names)
              = e.emg_datasets[d].emg_sessions[i].num_channels

\* the channel names held outside the entity renamed and its descendants
\* stay: d and i of the call are 0 where the call is made above that level
NamesOutsideKept(e1, e2, d, i) ==
    /\ d # 0 => e2.channel_names = e1.channel_names
    /\ \A k \in 1..Len(e1.emg_datasets) :
          /\ (d # 0 /\ (k # d \/ i # 0))
                => e2.emg_datasets[k].channel_names = e1.emg_datasets[k].channel_names
          /\ \A j \in 1..Len(e1.emg_datasets[k].emg_sessions) :
                (d # 0 /\ (k # d \/ (i # 0 /\ j # i)))
                   => e2.emg_datasets[k].emg_sessions[j].channel_names
                         = e1.emg_datasets[k].emg_sessions[j].channel_names

C27_RenameKeepsCountAndScope ==
    [][/\ SessionsHaveNumChannelsNames(experiment')
       /\ NamesOutsideKept(experiment, experiment', last'.arg[1], last'.arg[2])]_vars

\* the count alone
C27_SessionsHaveNumChannelsNames == SessionsHaveNumChannelsNames(experiment)

\* the scope alone
C27_RenameStaysInScope ==
    [][NamesOutsideKept(experiment, experiment', last'.arg[1], last'.arg[2])]_vars

\* a rename of a session that is not the first of its dataset stays within
\* the session, and the count is kept by renames below the experiment
C27_LaterSessionRenameStaysInScope ==
    [][(last'.arg[2] > 1)
          => /\ NamesOutsideKept(experiment, experiment', last'.arg[1], last'.arg[2])
             /\ (SessionsHaveNumChannelsNames(experiment)
                    => SessionsHaveNumChannelsNames(experiment'))]_vars

(***************************************************************************)
(* C28: after load_dataset, which applies the preferences in force, every  *)
(* M-max and processed-recording cache held by the dataset or one of its   *)
(* sessions equals the value recomputed from the recordings under those    *)
(* preferences, also when the preferences changed between save and load.   *)
(***************************************************************************)
\* the M-max of a dataset recomputed from the recordings of its sessions
FreshDatasetMmax(ds) ==
    dataset_m_max_loop(ToSeq([i \in 1..Len(ds.emg_sessions) |-> FreshMmax(ds.emg_sessions[i])]),
                       ds.num_channels, 0, << >>)

C28_LoadedCachesFresh ==
    last.op = "load_dataset_config" =>
        /\ \A i \in 1..Len(dataset.emg_sessions) : CachesFresh(dataset.emg_sessions[i])
        /\ dataset._m_max.set =>
              /\ FreshDatasetMmax(dataset).raised = "none"
              /\ dataset._m_max.v = FreshDatasetMmax(dataset).m_max

\* loads under the preferences the caches were computed with
C28_LoadedUnderSamePreferencesFresh ==
    [][(last'.op = "load_dataset_config"
        /\ \A i \in 1..Len(dataset.emg_sessions) :
              /\ CachesFresh(dataset.emg_sessions[i])
              /\ dataset.emg_sessions[i].default_method = last'.arg.default_method
              /\ dataset.emg_sessions[i].m_max_args = last'.arg.m_max_args)
          => \A i \in 1..Len(dataset'.emg_sessions) : CachesFresh(dataset'.emg_sessions[i])]_vars

(***************************************************************************)
(* C29: session migration is idempotent: _upgrade_from_version applied     *)
(* with the same old version to a session that was already migrated, as    *)
(* the dataset migration does to every child session that was migrated     *)
(* when it was deserialized, leaves the recordings, the recording_ids, the *)
(* excluded set, the backup, the latency windows and the channel names as  *)
(* they were after the first migration.                                    *)
(***************************************************************************)
MigratedFields(s) ==
    [recordings_raw |-> RawView(s),
     recording_ids |-> ToSeq([i \in 1..Len(s.recordings_raw) |-> RawView(s)[i].recording_id]),
     excluded_recordings |-> s.excluded_recordings,
     _original_recordings |-> s._original_recordings,
     latency_windows |-> s.latency_windows,
     channel_names |-> s.channel_names]

C29_SecondMigrationChangesNothing ==
    [][(last'.op = "load_dataset" /\ last'.raised = "none" /\ last'.arg < UpgradeThreshold)
          => /\ Len(dataset'.emg_sessions) = Len(dataset.emg_sessions)
             /\ \A i \in 1..Len(dataset.emg_sessions) :
                   MigratedFields(dataset'.emg_sessions[i])
                      = MigratedFields(
                           load_persisted_session(dataset.emg_sessions[i], last'.arg).s)]_vars

\* a dataset stored under an old version was loaded, and its first session
\* had a recording excluded, so that the migration numbered its recordings
\* anew
C29_Witness ==
    /\ last.op = "load_dataset"
    /\ last.raised = "none"
    /\ last.arg < UpgradeThreshold
    /\ dataset.emg_sessions[1].excluded_recordings # {}
    /\ Len(dataset.emg_sessions[1].recordings_raw) < NumRecordings

\* the same on a session by itself: a session loaded from a file of an old
\* version is a fixed point of its migration
C29_MigratedSessionIsFixedPoint ==
    (last.op = "load" /\ last.raised = "none" /\ last.arg < UpgradeThreshold)
       => MigratedFields(session_upgrade_from_version(session, last.arg).s)
             = MigratedFields(session)

====
